---------------------------- MODULE Spec2Model ----------------------------
(***************************************************************************)
(* Camo Stencil Studio (src/camo_studio.py): the processing pipeline       *)
(* (process_thread), the stencil bridger (apply_stencil_bridges), the 3D   *)
(* export worker (export_3d_thread) and the worker/UI scheduling of        *)
(* CamoStudioApp, as state machines.                                       *)
(*                                                                         *)
(* A raster is a set of pixels <<x, y>>; a mask is the set of its pixels   *)
(* that are 255.  A colour is a triple <<b, g, r>> of 0..255.  Palette     *)
(* indices and labels are 0-based as in the code; the sequences that hold  *)
(* them are 1-based, so palette index i is element i + 1.                  *)
(***************************************************************************)
EXTENDS Integers, Naturals, Sequences, FiniteSets, TLC

VARIABLES
    \* ---- one run of process_thread (its arguments and locals) ----
    img,                  \* the image at line 750: pixel -> colour
    w, h,                 \* img.shape
    config,               \* the snapshot_config of trigger_process
    picked_colors,        \* the snapshot_colors
    layer_ids,            \* the snapshot_layers
    pc,                   \* position of the worker in process_thread
    labels_reshaped,      \* pixel -> colour index
    raw_centers,
    raw_masks,
    final_masks,
    final_centers,
    total_coverage_mask,
    todo,                 \* what the merge loop has still to visit
    processed_data,       \* self.processed_data (None, or the published dict)
    pre_filter,           \* history: the argument of each filter_small_blobs call
    first_labels,         \* history: the label grid of the first run on this input
    \* ---- the colour search of the orphan step, draw by draw ----
    attempts,
    rand_c,
    last_draw,            \* history: the candidate drawn last and its fate
    \* ---- one run of export_3d_thread, apply_stencil_bridges included ----
    is_stencil,           \* self.exp_invert
    bridge_w,             \* self.exp_bridge
    border_w,             \* self.exp_border
    epc,                  \* position of the worker in export_3d_thread
    ei,                   \* the layer being built, 1-based (i + 1)
    shapely_polys,
    polys_in,             \* apply_stencil_bridges: polys still to visit
    temp_poly,
    holes_todo,           \* poly.interiors still to visit
    bridged_polys,
    scene_mesh,
    exported,             \* layer -> the solid written for it
    exp_signals,          \* what the worker has told the user
    built,                \* history: layers that reached the export step
    geom_failed,          \* history: layers on which a geometry step failed
    fault,                \* history: the failure of the step just taken
    abort_cause,          \* history: what raised into the outer except
    diff_failed,          \* history: holes of this polygon whose cut raised
    last_bridged,         \* history: what the bridger returned for a polygon
    \* ---- CamoStudioApp: the Tk main thread and its worker threads ----
    cv_original_full,     \* 0 for None, else the image loaded
    ui_config,            \* the Tk variables of self.config
    exp_bridge,           \* the Tk variable self.exp_bridge
    win3d_open,           \* the Export 3D Models window is open
    preview_images,
    tabs,                 \* the result tabs of the notebook
    lbl_status,
    runs,                 \* run id -> the worker thread started for it
    tk_queue,             \* callbacks queued by root.after(0, ...)
    signals,              \* history: run id -> outcomes told to the user
    \* export_2d_thread, one run
    svg_masks,            \* processed_data["masks"] as the worker read it
    svg_i,                \* the layer the loop of line 928 is at
    svg_pc,               \* position of the worker in export_2d_thread
    dwgs,                 \* layer -> the paths added to its drawing
    svg_signals,          \* history: the message boxes the worker asked for
    \* the contour loop of export_3d_thread, one mask
    approx_len,           \* contour index -> len(approx) of that contour
    hierarchy,            \* contour index -> <<next, previous, child, parent>>
    ct_j,                 \* the j of the loop of line 1033
    ct_pc,                \* position in the loop
    ct_polys,             \* shapely_polys as the loop builds it
    assembled,            \* history: the Polygon(shell, holes) calls made
    \* the palette of the main window
    self_picked_colors,   \* self.picked_colors
    layer_vars,           \* the values of the IntVars of self.layer_vars
    select_vars,          \* the values of the BooleanVars of self.select_vars
    last_select_index,
    swatch_rows,          \* the rows update_pick_ui built last: how many, and
                          \* whether their widgets hold the variables of
                          \* layer_vars and select_vars (live)
    compact_call          \* history: the ids compact_layer_ids found and
                          \* left when the last handler called it

pipeVars == <<img, w, h, config, picked_colors, layer_ids, pc, labels_reshaped,
              raw_centers, raw_masks, final_masks, final_centers,
              total_coverage_mask, todo, pre_filter, first_labels>>

searchVars == <<attempts, rand_c, last_draw>>

expVars == <<is_stencil, bridge_w, border_w, epc, ei, shapely_polys, polys_in,
             temp_poly, holes_todo, bridged_polys, scene_mesh, exported,
             exp_signals, built, geom_failed, fault, abort_cause, diff_failed,
             last_bridged>>

appVars == <<cv_original_full, ui_config, exp_bridge, win3d_open,
             preview_images, tabs, lbl_status, runs, tk_queue, signals>>

svgVars == <<svg_masks, svg_i, svg_pc, dwgs, svg_signals>>

ctVars == <<approx_len, hierarchy, ct_j, ct_pc, ct_polys, assembled>>

palVars == <<self_picked_colors, layer_vars, select_vars, last_select_index,
             swatch_rows, compact_call>>

vars == <<pipeVars, processed_data, searchVars, expVars, appVars, svgVars,
          ctVars, palVars>>

\* what the steps of process_thread outside the colour search leave alone
notPipe == <<searchVars, expVars, appVars, svgVars, ctVars,
           palVars>>

notExp == <<pipeVars, processed_data, searchVars, appVars, svgVars, ctVars,
           palVars>>

notApp == <<pipeVars, searchVars, expVars, svgVars, ctVars,
           palVars>>

\* what the steps of export_2d_thread leave alone
notSvg == <<pipeVars, processed_data, searchVars, expVars, appVars, ctVars,
           palVars>>

\* what load_image and reset_project leave alone besides fields of the
\* application
notAppPal == <<pipeVars, searchVars, expVars, svgVars, ctVars>>

\* what the handlers of the palette leave alone
notPal == <<pipeVars, processed_data, searchVars, expVars, svgVars, ctVars>>

\* what the contour loop leaves alone
notCt == <<pipeVars, processed_data, searchVars, expVars, appVars, svgVars,
           palVars>>

\* self.processed_data = NoData
NoData == [none |-> TRUE]

\* a label grid that no run has produced yet
NoLabels == <<>>

NoFault == [step |-> "none"]

\* no candidate has been drawn
NoDraw == [none |-> TRUE]

NoPolygon == [none |-> TRUE]

\* no 3D export is running
ExportIdle ==
    /\ is_stencil = FALSE
    /\ bridge_w = 0
    /\ border_w = 0
    /\ epc = "idle"
    /\ ei = 0
    /\ shapely_polys = <<>>
    /\ polys_in = <<>>
    /\ temp_poly = <<>>
    /\ holes_todo = <<>>
    /\ bridged_polys = <<>>
    /\ scene_mesh = {}
    /\ exported = <<>>
    /\ exp_signals = {}
    /\ built = {}
    /\ geom_failed = {}
    /\ fault = NoFault
    /\ abort_cause = "none"
    /\ diff_failed = {}
    /\ last_bridged = NoPolygon

\* no 2D export is running
SvgIdle ==
    /\ svg_masks = <<>>
    /\ svg_i = 0
    /\ svg_pc = "idle"
    /\ dwgs = <<>>
    /\ svg_signals = {}

\* no contour loop is running
CtIdle ==
    /\ approx_len = <<>>
    /\ hierarchy = <<>>
    /\ ct_j = 0
    /\ ct_pc = "idle"
    /\ ct_polys = <<>>
    /\ assembled = <<>>

\* the palette as constructed (lines 117-122) and as reset_picks leaves it
PalIdle ==
    /\ self_picked_colors = <<>>
    /\ layer_vars = <<>>
    /\ select_vars = <<>>
    /\ last_select_index = 0 - 1
    /\ swatch_rows = [n |-> 0, live |-> TRUE]
    /\ compact_call = [none |-> TRUE]

\* self.preview_images = {}
NoPreviews == [none |-> TRUE]

\* the notebook shows the Workspace tab only
NoTabs == [none |-> TRUE]

\* a run id for which no worker has been started
NoRun == [kind |-> "none", wpc |-> "none", image |-> 0, cfg |-> "none",
          data |-> <<>>, bridge_at_start |-> 0, used |-> <<>>,
          raised |-> FALSE]

\* the application is not part of the behaviour
AppIdle ==
    /\ cv_original_full = 0
    /\ ui_config = "default"
    /\ exp_bridge = 0
    /\ win3d_open = FALSE
    /\ preview_images = NoPreviews
    /\ tabs = NoTabs
    /\ lbl_status = "Ready."
    /\ runs = <<>>
    /\ tk_queue = <<>>
    /\ signals = <<>>

-----------------------------------------------------------------------------
(* Bounds of the model *)

\* widest image of the mask pipeline (its height is the two rows of Rows)
MaxW == 3
\* pixels of the one-row images of the colour assigner
AssignW == 2
\* longest manual palette
MaxPalette == 3
\* largest minimum-blob threshold tried
MaxBlob == 2
\* most holes of one polygon
MaxHoles == 2
\* layers of the result a 3D export works on
NumLayers == 2

Rows == {0, 1}

Pixels(ww, hh) == (0 .. ww - 1) \X (0 .. hh - 1)

Black == <<0, 0, 0>>
White == <<255, 255, 255>>
Red   == <<0, 0, 255>>
Dark1 == <<1, 0, 0>>
Dark2 == <<2, 0, 0>>

-----------------------------------------------------------------------------
(* Pure helpers *)

Min2(a, b) == IF a <= b THEN a ELSE b

RECURSIVE SumSeq(_)
SumSeq(s) == IF s = <<>> THEN 0 ELSE Head(s) + SumSeq(Tail(s))

\* np.sum((data - center) ** 2, axis=1) for one pixel: float32 holds every
\* integer up to 3 * 255^2 exactly, so this is the integer sum
SqDist(a, b) ==
    (a[1] - b[1]) * (a[1] - b[1]) + (a[2] - b[2]) * (a[2] - b[2])
        + (a[3] - b[3]) * (a[3] - b[3])

\* np.argmin over one row of distances: the scan keeps the first minimum
RECURSIVE ArgMinScanLast(_, _, _)
ArgMinScanLast(d, i, best) ==
    IF i > Len(d) THEN best - 1
    ELSE ArgMinScanLast(d, i + 1, IF d[i] <= d[best] THEN i ELSE best)

RECURSIVE ArgMinScan(_, _, _)
ArgMinScan(d, i, best) ==
    IF i > Len(d) THEN best - 1
    ELSE ArgMinScan(d, i + 1, IF d[i] < d[best] THEN i ELSE best)

ArgMinLast(d) == ArgMinScanLast(d, 2, 1)

ArgMin(d) == ArgMinScan(d, 2, 1)

\* lines 758-762: the distance row of one pixel, then argmin
Distances(px, centers) == [i \in 1 .. Len(centers) |-> SqDist(px, centers[i])]

ManualLabels(image, centers) ==
    [p \in DOMAIN image |-> ArgMin(Distances(image[p], centers))]

-----------------------------------------------------------------------------
(* Raster operations *)

Abs(x) == IF x < 0 THEN -x ELSE x

\* the same set, enumerated once (TLC keeps a set comprehension as a predicate)
Eager(S) == {x : x \in S}

\* 8-connectivity of cv2.connectedComponentsWithStats(mask, connectivity=8)
Adj8(p, q) == p # q /\ Abs(p[1] - q[1]) <= 1 /\ Abs(p[2] - q[2]) <= 1

RECURSIVE Grow(_, _)
Grow(seed, S) ==
    LET nxt == Eager(seed \cup {q \in S : \E p \in seed : Adj8(p, q)})
    IN  IF nxt = seed THEN seed ELSE Grow(nxt, S)

\* the foreground labels 1..n-1 of connectedComponentsWithStats, as regions
Components(mask) == {Grow({p}, mask) : p \in mask}

\* lines 34-38 without line 35: the background label is kept when it is large
FilterKeepsBackground(mask, min_size, grid) ==
    IF min_size <= 0 THEN mask
    ELSE LET stats == Components(mask) \cup {grid \ mask}
             valid_labels == {c \in stats : Cardinality(c) >= min_size}
         IN  Eager(UNION valid_labels)

\* filter_small_blobs: label 0 is the background grid \ mask
filter_small_blobs(mask, min_size, grid) ==
    IF min_size <= 0 THEN mask
    ELSE LET stats == Components(mask) \cup {grid \ mask}
             valid_labels ==
                 {c \in stats : Cardinality(c) >= min_size} \ {grid \ mask}
         IN  Eager(UNION valid_labels)

\* cv2.getStructuringElement(cv2.MORPH_ELLIPSE, (d, d)) as offsets from the
\* anchor: the single pixel for d = 1, the 3x3 cross for d = 3
Kernel(d) ==
    IF d = 1 THEN {<<0, 0>>}
    ELSE {<<0, 0>>, <<1, 0>>, <<-1, 0>>, <<0, 1>>, <<0, -1>>}

Under(p, kernel, grid) == {q \in grid : <<q[1] - p[1], q[2] - p[2]>> \in kernel}

\* cv2.erode / cv2.dilate with the default border: pixels outside the image
\* never constrain an erosion and never feed a dilation
Erode(mask, kernel, grid) ==
    Eager({p \in grid : Under(p, kernel, grid) \subseteq mask})

Dilate(mask, kernel, grid) ==
    Eager({p \in grid : Under(p, kernel, grid) \cap mask # {}})

MorphClose(mask, kernel, grid) == Erode(Dilate(mask, kernel, grid), kernel, grid)

MorphOpen(mask, kernel, grid) == Dilate(Erode(mask, kernel, grid), kernel, grid)

-----------------------------------------------------------------------------
(* process_thread, one run *)

Grid == Pixels(w, h)

Manual == Len(picked_colors) > 0

RECURSIVE SumChannel(_, _, _)
SumChannel(S, f, ch) ==
    IF S = {} THEN 0
    ELSE LET x == CHOOSE y \in S : TRUE
         IN  f[x][ch] + SumChannel(S \ {x}, f, ch)

\* the mean colour of the members of S under f, then np.uint8: truncation
MeanColor(S, f) ==
    LET n == Cardinality(S)
    IN  <<SumChannel(S, f, 1) \div n, SumChannel(S, f, 2) \div n,
          SumChannel(S, f, 3) \div n>>

\* cv2.kmeans (line 768) on the pixel colours: equal pixels share a label; a
\* cluster's centre is the mean of its pixels, an empty cluster's is some
\* colour of the image.  Which outcome the random initialisation gives is open.
KMeansOutcomes(image, k) ==
    LET cols == {image[p] : p \in DOMAIN image}
    IN  {[label   |-> [p \in DOMAIN image |-> f[image[p]]],
          centers |-> [i \in 1 .. k |->
                         LET members == {p \in DOMAIN image : f[image[p]] = i - 1}
                         IN  IF members = {} THEN e ELSE MeanColor(members, image)]]
         : f \in [cols -> 0 .. k - 1], e \in cols}

\* lines 756-771
P_Assign ==
    /\ pc = "start"
    /\ IF Manual
       THEN /\ labels_reshaped' = ManualLabels(img, picked_colors)
            /\ raw_centers' = picked_colors
            /\ pc' = "raw"
       ELSE IF config.max_colors > Cardinality(DOMAIN img)
       THEN /\ pc' = "failed"
            /\ UNCHANGED <<labels_reshaped, raw_centers>>
       ELSE \E km \in KMeansOutcomes(img, config.max_colors) :
                /\ labels_reshaped' = km.label
                /\ raw_centers' = km.centers
                /\ pc' = "raw"
    /\ UNCHANGED <<img, w, h, config, picked_colors, layer_ids, raw_masks,
                   final_masks, final_centers, total_coverage_mask, todo,
                   processed_data, pre_filter, first_labels>>
    /\ UNCHANGED notPipe

\* sorted(layer_map.keys()) (line 795)
RECURSIVE SortedSeq(_)
SortedSeq(S) ==
    IF S = {} THEN <<>>
    ELSE LET m == CHOOSE x \in S : \A y \in S : x <= y
         IN  <<m>> \o SortedSeq(S \ {m})

\* lines 773-795: the raw masks, then the order of the merge loop: the sorted
\* layer ids in manual mode, the raw indices in auto mode
P_RawMasks ==
    /\ pc = "raw"
    /\ raw_masks' = [i \in 1 .. Len(raw_centers) |->
                        {p \in Grid : labels_reshaped[p] = i - 1}]
    /\ final_masks' = <<>>
    /\ final_centers' = <<>>
    /\ pre_filter' = <<>>
    /\ total_coverage_mask' = {}
    /\ todo' = IF Manual
               THEN SortedSeq({layer_ids[i] : i \in 1 .. Len(layer_ids)})
               ELSE [i \in 1 .. Len(raw_centers) |-> i - 1]
    /\ pc' = "merge"
    /\ UNCHANGED <<img, w, h, config, picked_colors, layer_ids, labels_reshaped,
                   raw_centers, processed_data, first_labels>>
    /\ UNCHANGED notPipe

\* layer_map[lid] (lines 790-793), 0-based palette indices
LayerIndices(lid) == {i - 1 : i \in {j \in 1 .. Len(layer_ids) : layer_ids[j] = lid}}

\* a merge that keeps only the mask of the layer's highest index
CombinedMaskLastOnly(indices, masks) ==
    masks[(CHOOSE i \in indices : \A j \in indices : j <= i) + 1]

\* lines 799-803: bitwise_or of the raw masks of the layer's indices
CombinedMask(indices, masks) == UNION {masks[i + 1] : i \in indices}

\* a mean that rounds to the nearest integer
AvgColorRounded(indices, centers) ==
    LET n == Cardinality(indices)
        f == [i \in indices |-> centers[i + 1]]
    IN  [ch \in 1 .. 3 |-> (2 * SumChannel(indices, f, ch) + n) \div (2 * n)]

\* lines 800-806: the mean of the layer's palette colours, astype(np.uint8)
AvgColor(indices, centers) ==
    MeanColor(indices, [i \in indices |-> centers[i + 1]])

\* lines 808-810 / 823-825: close, then open
CleanLayer(mask, d, grid) ==
    IF d > 0
    THEN MorphOpen(MorphClose(mask, Kernel(d), grid), Kernel(d), grid)
    ELSE mask

\* an accumulator that keeps the last layer only
AccumulateLast(total, filtered) == filtered

\* lines 818 and 831: bitwise_or into the coverage accumulator
Accumulate(total, filtered) == total \cup filtered

\* lines 797-818 (manual) and 822-831 (auto): one iteration of the loop
P_MergeLayer ==
    /\ pc = "merge"
    /\ todo # <<>>
    /\ LET key == Head(todo)
           indices == IF Manual THEN LayerIndices(key) ELSE {key}
       IN  IF \E i \in indices : i >= Len(raw_masks)
           THEN \* raw_masks[idx]: IndexError
                /\ pc' = "failed"
                /\ UNCHANGED <<final_masks, final_centers, pre_filter,
                               total_coverage_mask, todo>>
           ELSE LET combined == CleanLayer(CombinedMask(indices, raw_masks),
                                           config.denoise_strength, Grid)
                    filtered == filter_small_blobs(combined,
                                                   config.min_blob_size, Grid)
                IN  /\ final_masks' = Append(final_masks, filtered)
                    /\ final_centers' =
                           IF Manual
                           THEN Append(final_centers, AvgColor(indices, raw_centers))
                           ELSE final_centers
                    /\ pre_filter' = Append(pre_filter, combined)
                    /\ total_coverage_mask' = Accumulate(total_coverage_mask, filtered)
                    /\ todo' = Tail(todo)
                    /\ pc' = "merge"
    /\ UNCHANGED <<img, w, h, config, picked_colors, layer_ids, labels_reshaped,
                   raw_centers, raw_masks, processed_data, first_labels>>
    /\ UNCHANGED notPipe

\* line 832 and the end of either loop: in auto mode final_centers is the
\* numpy array raw_centers, in manual mode the list built by the loop
P_MergeDone ==
    /\ pc = "merge"
    /\ todo = <<>>
    /\ final_centers' = IF Manual THEN final_centers ELSE raw_centers
    /\ pc' = "orphan"
    /\ UNCHANGED <<img, w, h, config, picked_colors, layer_ids, labels_reshaped,
                   raw_centers, raw_masks, final_masks, total_coverage_mask,
                   todo, processed_data, pre_filter, first_labels>>
    /\ UNCHANGED notPipe

Green == <<0, 255, 0>>

\* the draws of np.random.randint(0, 256, 3) the model tries
CandidateColors == {Black, White, <<15, 15, 15>>, <<16, 16, 16>>, <<128, 0, 64>>}

\* line 852: c and candidate are uint8 arrays, so the difference and its
\* square wrap modulo 256; np.sum adds the three bytes as integers
SqDistU8(a, b) ==
    LET sq(x, y) == (((x - y) % 256) * ((x - y) % 256)) % 256
    IN  sq(a[1], b[1]) + sq(a[2], b[2]) + sq(a[3], b[3])

\* line 855
Threshold(n) == IF n < 10 THEN 2000 ELSE 500

\* an acceptance test that takes every draw
AcceptsAll(candidate, centers) == TRUE

\* line 857
Accepts(candidate, centers) ==
    \/ Len(centers) = 0
    \/ \A i \in 1 .. Len(centers) :
           SqDistU8(centers[i], candidate) > Threshold(Len(centers))

\* lines 838-840: open, then close
CleanOrphans(mask, d, grid) ==
    IF d > 0
    THEN MorphClose(MorphOpen(mask, Kernel(d), grid), Kernel(d), grid)
    ELSE mask

\* line 836
RawOrphans == Grid \ total_coverage_mask

\* lines 838-842
OrphansCleaned == CleanOrphans(RawOrphans, config.denoise_strength, Grid)

OrphansFinal == filter_small_blobs(OrphansCleaned, config.min_blob_size, Grid)

\* lines 834-863.  The colour search ends with an accepted draw, or, when
\* fifty draws in a row were rejected, with the default green.  In auto mode
\* final_centers is a numpy array: final_centers.append raises AttributeError
P_Orphan ==
    /\ pc = "orphan"
    /\ LET orphans == OrphansCleaned
           orphans_final == OrphansFinal
       IN  IF config.orphaned_blobs /\ orphans_final # {}
           THEN IF Manual
                THEN \E colour \in {c \in CandidateColors : Accepts(c, final_centers)}
                                  \cup {c \in {Green} :
                                          \E r \in CandidateColors :
                                              ~Accepts(r, final_centers)} :
                         /\ final_masks' = Append(final_masks, orphans_final)
                         /\ final_centers' = Append(final_centers, colour)
                         /\ pre_filter' = Append(pre_filter, orphans)
                         /\ pc' = "publish"
                ELSE /\ pc' = "failed"
                     /\ UNCHANGED <<final_masks, final_centers, pre_filter>>
           ELSE /\ pc' = "publish"
                /\ UNCHANGED <<final_masks, final_centers, pre_filter>>
    /\ UNCHANGED <<img, w, h, config, picked_colors, layer_ids, labels_reshaped,
                   raw_centers, raw_masks, total_coverage_mask, todo,
                   processed_data, first_labels>>
    /\ UNCHANGED notPipe


\* ---- the orphan step once more, one draw of the colour search per step ----

\* line 849
MaxAttempts == 50

\* lines 834-847: the orphan mask, and the locals of the search
O_Mask ==
    /\ pc = "orphan"
    /\ IF config.orphaned_blobs /\ OrphansFinal # {}
       THEN /\ attempts' = 0
            /\ rand_c' = Green
            /\ pc' = "search"
       ELSE /\ pc' = "publish"
            /\ UNCHANGED <<attempts, rand_c>>
    /\ UNCHANGED <<img, w, h, config, picked_colors, layer_ids, labels_reshaped,
                   raw_centers, raw_masks, final_masks, final_centers,
                   total_coverage_mask, todo, processed_data, pre_filter,
                   first_labels, last_draw>>
    /\ UNCHANGED <<expVars, appVars, svgVars, ctVars, palVars>>

\* lines 849-859: one iteration of the while loop
O_Draw ==
    /\ pc = "search"
    /\ attempts < MaxAttempts
    /\ attempts' = attempts + 1
    /\ \E candidate \in CandidateColors :
          LET accepted == Accepts(candidate, final_centers)
          IN  /\ last_draw' = [candidate |-> candidate, accepted |-> accepted]
              /\ rand_c' = IF accepted THEN candidate ELSE rand_c
              /\ pc' = IF accepted THEN "append" ELSE "search"
    /\ UNCHANGED <<img, w, h, config, picked_colors, layer_ids, labels_reshaped,
                   raw_centers, raw_masks, final_masks, final_centers,
                   total_coverage_mask, todo, processed_data, pre_filter,
                   first_labels>>
    /\ UNCHANGED <<expVars, appVars, svgVars, ctVars, palVars>>

\* line 849: the loop condition fails
O_Exhausted ==
    /\ pc = "search"
    /\ ~(attempts < MaxAttempts)
    /\ pc' = "append"
    /\ UNCHANGED <<img, w, h, config, picked_colors, layer_ids, labels_reshaped,
                   raw_centers, raw_masks, final_masks, final_centers,
                   total_coverage_mask, todo, processed_data, pre_filter,
                   first_labels>>
    /\ UNCHANGED notPipe

\* lines 861-863: final_centers is a list in manual mode, a numpy array in
\* auto mode, where final_centers.append raises AttributeError after the
\* append to final_masks
O_Append ==
    /\ pc = "append"
    /\ final_masks' = Append(final_masks, OrphansFinal)
    /\ pre_filter' = Append(pre_filter, OrphansCleaned)
    /\ IF Manual
       THEN /\ final_centers' = Append(final_centers, rand_c)
            /\ pc' = "publish"
       ELSE /\ pc' = "failed"
            /\ UNCHANGED final_centers
    /\ UNCHANGED <<img, w, h, config, picked_colors, layer_ids, labels_reshaped,
                   raw_centers, raw_masks, total_coverage_mask, todo,
                   processed_data, first_labels>>
    /\ UNCHANGED notPipe

\* lines 865-870
P_Publish ==
    /\ pc = "publish"
    /\ processed_data' = [centers |-> final_centers, masks |-> final_masks,
                          width |-> w, height |-> h]
    /\ pc' = "done"
    /\ UNCHANGED <<img, w, h, config, picked_colors, layer_ids, labels_reshaped,
                   raw_centers, raw_masks, final_masks, final_centers,
                   total_coverage_mask, todo, pre_filter, first_labels>>
    /\ UNCHANGED notPipe

-----------------------------------------------------------------------------
(* The mask pipeline on every two-row black and white image *)

DenoiseChoices == {0, 3}

LayerIdChoices == {1, 3}

MaskPalettes == {<<>>, <<Black, White>>, <<White, Red, Black>>}

SeqsOfLen(S, n) == [1 .. n -> S]

InitPipeLocals ==
    /\ labels_reshaped = NoLabels
    /\ raw_centers = <<>>
    /\ raw_masks = <<>>
    /\ final_masks = <<>>
    /\ final_centers = <<>>
    /\ total_coverage_mask = {}
    /\ todo = <<>>
    /\ processed_data = NoData
    /\ pre_filter = <<>>
    /\ first_labels = NoLabels
    /\ attempts = 0
    /\ rand_c = <<>>
    /\ last_draw = NoDraw

InitMask ==
    /\ w = MaxW
    /\ h = Cardinality(Rows)
    /\ img \in [Pixels(MaxW, Cardinality(Rows)) -> {Black, White}]
    /\ picked_colors \in MaskPalettes
    /\ layer_ids \in SeqsOfLen(LayerIdChoices, Len(picked_colors))
    /\ config \in [max_colors : {2}, denoise_strength : DenoiseChoices,
                    min_blob_size : 0 .. MaxBlob, orphaned_blobs : BOOLEAN]
    /\ pc = "start"
    /\ InitPipeLocals
    /\ ExportIdle
    /\ AppIdle
    /\ SvgIdle
    /\ CtIdle
    /\ PalIdle

NextMask ==
    \/ P_Assign
    \/ P_RawMasks
    \/ P_MergeLayer
    \/ P_MergeDone
    \/ P_Orphan
    \/ P_Publish

SpecMask == InitMask /\ [][NextMask]_vars

\* a larger image for the cleanup of the orphan mask: three colours, the
\* cross kernel and a blob threshold that the orphans reach only together
CleanW == 5

CleanH == 4

CleanBlob == 8

CleanPalette == <<Black, White, Red>>

\* the palette index of every pixel, row by row
CleanLabels ==
    << <<1, 2, 2, 0, 2>>,
       <<1, 1, 2, 0, 0>>,
       <<0, 2, 2, 1, 0>>,
       <<2, 2, 2, 0, 0>> >>

CleanImage ==
    [p \in Pixels(CleanW, CleanH) |->
        IF p[2] < Len(CleanLabels) /\ p[1] < Len(CleanLabels[p[2] + 1])
        THEN CleanPalette[CleanLabels[p[2] + 1][p[1] + 1] + 1]
        ELSE Black]

\* the image, and the image with one pixel repainted
InitClean ==
    /\ w = CleanW
    /\ h = CleanH
    /\ img \in {[CleanImage EXCEPT ![q] = c] :
                   q \in Pixels(CleanW, CleanH), c \in {Black, White, Red}}
    /\ picked_colors = CleanPalette
    /\ layer_ids = [i \in 1 .. Len(picked_colors) |-> i]
    /\ config \in [max_colors : {2}, denoise_strength : {3},
                    min_blob_size : {0, CleanBlob}, orphaned_blobs : BOOLEAN]
    /\ pc = "start"
    /\ InitPipeLocals
    /\ ExportIdle
    /\ AppIdle
    /\ SvgIdle
    /\ CtIdle
    /\ PalIdle

SpecClean == InitClean /\ [][NextMask]_vars

-----------------------------------------------------------------------------
(* The orphan colour search on one-row images, with few and with many layers *)

\* width of the images of the colour search
OrphanW == 2

\* ten colours, each a layer of its own
Crowded == << <<0, 0, 0>>, <<30, 0, 0>>, <<0, 30, 0>>, <<0, 0, 30>>,
              <<30, 30, 0>>, <<30, 0, 30>>, <<0, 30, 30>>, <<30, 30, 30>>,
              <<128, 128, 128>>, <<128, 0, 0>> >>

OrphanPalettes == {<<>>, <<Black, White>>, Crowded}

InitOrphan ==
    /\ w = OrphanW
    /\ h = 1
    /\ img \in [Pixels(OrphanW, 1) -> {Black, White}]
    /\ picked_colors \in OrphanPalettes
    /\ layer_ids = [i \in 1 .. Len(picked_colors) |-> i]
    /\ config \in [max_colors : {2}, denoise_strength : {0},
                    min_blob_size : {0, 2}, orphaned_blobs : BOOLEAN]
    /\ pc = "start"
    /\ InitPipeLocals
    /\ ExportIdle
    /\ AppIdle
    /\ SvgIdle
    /\ CtIdle
    /\ PalIdle

NextOrphan ==
    \/ P_Assign
    \/ P_RawMasks
    \/ P_MergeLayer
    \/ P_MergeDone
    \/ O_Mask
    \/ O_Draw
    \/ O_Exhausted
    \/ O_Append
    \/ P_Publish

\* the worker thread is scheduled: it takes its next step
SpecOrphan == InitOrphan /\ [][NextOrphan]_vars /\ WF_vars(NextOrphan)

-----------------------------------------------------------------------------
(* The colour assigner on one-row images whose colours make ties happen *)

AssignColors == {Black, Dark1, Dark2, White}

\* trigger_process once more on the same image and palette (lines 715-734)
P_Rerun ==
    /\ pc = "raw"
    /\ first_labels' = IF first_labels = NoLabels THEN labels_reshaped ELSE first_labels
    /\ pc' = "start"
    /\ UNCHANGED <<img, w, h, config, picked_colors, layer_ids, labels_reshaped,
                   raw_centers, raw_masks, final_masks, final_centers,
                   total_coverage_mask, todo, processed_data, pre_filter>>
    /\ UNCHANGED notPipe

InitAssign ==
    /\ w = AssignW
    /\ h = 1
    /\ img \in [Pixels(AssignW, 1) -> AssignColors]
    /\ picked_colors \in UNION {SeqsOfLen(AssignColors, n) : n \in 1 .. MaxPalette}
    /\ layer_ids = [i \in 1 .. Len(picked_colors) |-> i]
    /\ config = [max_colors |-> 2, denoise_strength |-> 0, min_blob_size |-> 0,
                 orphaned_blobs |-> FALSE]
    /\ pc = "start"
    /\ InitPipeLocals
    /\ ExportIdle
    /\ AppIdle
    /\ SvgIdle
    /\ CtIdle
    /\ PalIdle

NextAssign ==
    \/ P_Assign
    \/ P_Rerun

SpecAssign == InitAssign /\ [][NextAssign]_vars

-----------------------------------------------------------------------------
(* export_3d_thread and apply_stencil_bridges, one run.                    *)
(*                                                                         *)
(* A geometry is the sequence of its polygons, a polygon the set of its    *)
(* interior rings (holes, numbered within the polygon the contour          *)
(* extraction built): a shapely Polygon has one element, a MultiPolygon    *)
(* two or more.  What the shapely and trimesh calls return for a given     *)
(* geometry is open: every outcome the code provides for is a choice.      *)

Poly(k) == <<1 .. k>>

MultiPoly == <<{}, {}>>

IsMulti(g) == Len(g) > 1

\* what lines 1028-1059 can hand on for one mask: no polygon, a polygon with
\* 0..MaxHoles holes, two polygons in either order, or the MultiPolygon that
\* buffer(0) makes of a ring that touches itself
LayerInputs ==
    {<<>>, <<MultiPoly>>, <<Poly(1), MultiPoly>>}
        \cup {<<Poly(k)>> : k \in 0 .. MaxHoles}
        \cup {<<Poly(0), Poly(k)>> : k \in 1 .. MaxHoles}
        \cup {<<Poly(k), Poly(0)>> : k \in 1 .. MaxHoles}

\* a bridging call that does not look at the export mode
BridgingInAnyMode == bridge_w > 0

\* lines 1062-1064: the two conditions around the bridging call
BridgingApplies == is_stencil /\ bridge_w > 0

\* lines 1018-1066: the contours of masks[i], then the bridging call
E_Extract ==
    /\ epc = "extract"
    /\ ei <= NumLayers
    /\ \E polys \in LayerInputs :
          /\ shapely_polys' = polys
          /\ IF BridgingApplies
             THEN /\ polys_in' = polys
                  /\ bridged_polys' = <<>>
                  /\ epc' = "b_poly"
             ELSE /\ epc' = "mesh"
                  /\ UNCHANGED <<polys_in, bridged_polys>>
    /\ fault' = NoFault
    /\ UNCHANGED <<is_stencil, bridge_w, border_w, ei, temp_poly, holes_todo,
                   scene_mesh, exported, exp_signals, built, geom_failed,
                   abort_cause, diff_failed, last_bridged>>
    /\ UNCHANGED notExp

\* a loop that leaves the last interior ring out
InteriorsButLast(poly) ==
    LET all == SortedSeq(poly[1]) IN SubSeq(all, 1, Len(all) - 1)

\* for interior in poly.interiors (line 975)
Interiors(poly) == SortedSeq(poly[1])

\* lines 964-973: the next polygon.  poly.interiors of a MultiPolygon raises
\* AttributeError, outside any try of apply_stencil_bridges
B_Poly ==
    /\ epc = "b_poly"
    /\ polys_in # <<>>
    /\ LET poly == Head(polys_in)
       IN  IF IsMulti(poly)
           THEN /\ epc' = "except"
                /\ abort_cause' = "interiors"
                /\ geom_failed' = geom_failed \cup {ei}
                /\ UNCHANGED <<polys_in, temp_poly, holes_todo, bridged_polys,
                               diff_failed, last_bridged>>
           ELSE IF poly[1] = {}
           THEN /\ bridged_polys' = Append(bridged_polys, poly)
                /\ polys_in' = Tail(polys_in)
                /\ last_bridged' = [input |-> poly, output |-> <<poly>>,
                                    failed |-> {}]
                /\ UNCHANGED <<epc, temp_poly, holes_todo, diff_failed,
                               abort_cause, geom_failed>>
           ELSE /\ temp_poly' = poly
                /\ holes_todo' = Interiors(poly)
                /\ polys_in' = Tail(polys_in)
                /\ diff_failed' = {}
                /\ epc' = "b_hole"
                /\ UNCHANGED <<bridged_polys, last_bridged, abort_cause,
                               geom_failed>>
    /\ fault' = NoFault
    /\ UNCHANGED <<is_stencil, bridge_w, border_w, ei, shapely_polys, scene_mesh,
                   exported, exp_signals, built>>
    /\ UNCHANGED notExp

\* temp_poly.difference(bridge_shape) where it does not raise: the cut opens
\* hole k into the exterior, and may cut the polygon in two, the other holes
\* going to either piece
CutResults(g, k) ==
    LET rest == g[1] \ {k}
    IN  {<<rest>>} \cup {<<A, rest \ A>> : A \in SUBSET rest}

\* lines 975-990: one interior ring.  temp_poly.exterior of a MultiPolygon
\* raises AttributeError at line 977, before the try of line 986
B_Hole ==
    /\ epc = "b_hole"
    /\ holes_todo # <<>>
    /\ LET k == Head(holes_todo)
       IN  IF IsMulti(temp_poly)
           THEN /\ epc' = "except"
                /\ abort_cause' = "nearest_points"
                /\ fault' = [step |-> "nearest_points", hole |-> k,
                             before |-> temp_poly]
                /\ UNCHANGED <<temp_poly, holes_todo, diff_failed>>
           ELSE \/ \* difference raises: caught at line 989
                   /\ fault' = [step |-> "difference", hole |-> k,
                                before |-> temp_poly]
                   /\ diff_failed' = diff_failed \cup {k}
                   /\ holes_todo' = Tail(holes_todo)
                   /\ UNCHANGED <<temp_poly, epc, abort_cause>>
                \/ \E g \in CutResults(temp_poly, k) :
                       /\ temp_poly' = g
                       /\ fault' = NoFault
                       /\ holes_todo' = Tail(holes_todo)
                       /\ UNCHANGED <<diff_failed, epc, abort_cause>>
    /\ UNCHANGED <<is_stencil, bridge_w, border_w, ei, shapely_polys, polys_in,
                   bridged_polys, scene_mesh, exported, exp_signals, built,
                   geom_failed, last_bridged>>
    /\ UNCHANGED notExp

\* lines 992-997: every piece of the working polygon goes to the output
B_PolyDone ==
    /\ epc = "b_hole"
    /\ holes_todo = <<>>
    /\ bridged_polys' = bridged_polys \o [j \in 1 .. Len(temp_poly) |-> <<temp_poly[j]>>]
    /\ last_bridged' = [input |-> shapely_polys[Len(shapely_polys) - Len(polys_in)],
                        output |-> [j \in 1 .. Len(temp_poly) |-> <<temp_poly[j]>>],
                        failed |-> diff_failed]
    /\ epc' = "b_poly"
    /\ fault' = NoFault
    /\ UNCHANGED <<is_stencil, bridge_w, border_w, ei, shapely_polys, polys_in,
                   temp_poly, holes_todo, scene_mesh, exported, exp_signals,
                   built, geom_failed, abort_cause, diff_failed>>
    /\ UNCHANGED notExp

\* line 999, back at line 1065
B_Return ==
    /\ epc = "b_poly"
    /\ polys_in = <<>>
    /\ shapely_polys' = bridged_polys
    /\ epc' = "mesh"
    /\ fault' = NoFault
    /\ UNCHANGED <<is_stencil, bridge_w, border_w, ei, polys_in, temp_poly,
                   holes_todo, bridged_polys, scene_mesh, exported, exp_signals,
                   built, geom_failed, abort_cause, diff_failed, last_bridged>>
    /\ UNCHANGED notExp

\* line 104: the default of exp_width, read at line 1010
TargetW == 100

\* lines 1015-1016: target_h = orig_h * target_w / orig_w, for an image twice
\* as wide as high
TargetH == TargetW \div 2

\* line 105: the default of exp_height, read at line 1011
Extrusion == 2

\* a plate cut to the image, with no margin around it
ImageRectAsPlate == <<0, 0, TargetW, TargetH>>

\* lines 1071-1073, and the outer box of lines 1111-1112: a rectangle as
\* <<min_x, min_y, max_x, max_y>>
PlateRect == <<0 - border_w, 0 - border_w, TargetW + border_w, TargetH + border_w>>

\* line 1113: the rectangle of the scaled image, which holds the polygons
ImageRect == <<0, 0, TargetW, TargetH>>

\* lines 1092, 1107, 1115: extrude_polygon(p, height=extrusion); perforated
\* tells whether the extruded shape has material removed inside rect
Solid(part, rect, perforated) ==
    [part |-> part, rect |-> rect, height |-> Extrusion, perforated |-> perforated]

\* lines 1068-1116: the solid of the layer, as the set of its parts.
\* Stencil: the plate minus the union of the polygons when there are any; a
\* failing difference is caught (line 1080) and leaves the plain plate; the
\* difference may be empty.  Relief: the polygons, and the frame when
\* border_w > 0.  unary_union in relief mode and extrude_polygon stand in no
\* try of their own: when one raises on a layer's polygons, the outer except
\* takes over.  The plate and the frame are plain rectangles: their
\* extrusion is taken to succeed.
MeshOutcomes ==
    IF shapely_polys = <<>>
    THEN {[raised |-> "none", failed |-> FALSE,
           mesh |-> IF is_stencil THEN {Solid("plate", PlateRect, FALSE)}
                    ELSE IF border_w > 0 THEN {Solid("frame", PlateRect, TRUE)}
                    ELSE {}]}
    ELSE IF is_stencil
    THEN {[raised |-> "none", failed |-> FALSE,
           mesh |-> {Solid("plate", PlateRect, TRUE)}],
          [raised |-> "none", failed |-> TRUE, mesh |-> {}],
          [raised |-> "none", failed |-> TRUE,
           mesh |-> {Solid("plate", PlateRect, FALSE)}],
          [raised |-> "extrude_polygon", failed |-> TRUE, mesh |-> {}]}
    ELSE {[raised |-> "none", failed |-> FALSE,
           mesh |-> {Solid("blobs", ImageRect, FALSE)}
                    \cup IF border_w > 0 THEN {Solid("frame", PlateRect, TRUE)}
                         ELSE {}],
          [raised |-> "unary_union", failed |-> TRUE, mesh |-> {}],
          [raised |-> "extrude_polygon", failed |-> TRUE, mesh |-> {}]}

E_Mesh ==
    /\ epc = "mesh"
    /\ \E o \in MeshOutcomes :
          /\ scene_mesh' = o.mesh
          /\ geom_failed' = IF o.failed THEN geom_failed \cup {ei} ELSE geom_failed
          /\ IF o.raised = "none"
             THEN /\ epc' = "write"
                  /\ UNCHANGED abort_cause
             ELSE /\ epc' = "except"
                  /\ abort_cause' = o.raised
    /\ fault' = NoFault
    /\ UNCHANGED <<is_stencil, bridge_w, border_w, ei, shapely_polys, polys_in,
                   temp_poly, holes_todo, bridged_polys, exported, exp_signals,
                   built, diff_failed, last_bridged>>
    /\ UNCHANGED notExp

\* lines 1118-1119, then the next i
E_Write ==
    /\ epc = "write"
    /\ exported' = IF scene_mesh # {}
                   THEN [exported EXCEPT ![ei] = scene_mesh]
                   ELSE exported
    /\ built' = built \cup {ei}
    /\ ei' = ei + 1
    /\ epc' = "extract"
    /\ fault' = NoFault
    /\ UNCHANGED <<is_stencil, bridge_w, border_w, shapely_polys, polys_in,
                   temp_poly, holes_todo, bridged_polys, scene_mesh, exp_signals,
                   geom_failed, abort_cause, diff_failed, last_bridged>>
    /\ UNCHANGED notExp

\* lines 1121-1122
E_Done ==
    /\ epc = "extract"
    /\ ei > NumLayers
    /\ exp_signals' = exp_signals \cup {"Success"}
    /\ epc' = "done"
    /\ fault' = NoFault
    /\ UNCHANGED <<is_stencil, bridge_w, border_w, ei, shapely_polys, polys_in,
                   temp_poly, holes_todo, bridged_polys, scene_mesh, exported,
                   built, geom_failed, abort_cause, diff_failed, last_bridged>>
    /\ UNCHANGED notExp

\* lines 1124-1128
E_Except ==
    /\ epc = "except"
    /\ exp_signals' = exp_signals \cup {"Export Error"}
    /\ epc' = "failed"
    /\ UNCHANGED <<is_stencil, bridge_w, border_w, ei, shapely_polys, polys_in,
                   temp_poly, holes_todo, bridged_polys, scene_mesh, exported,
                   built, geom_failed, fault, abort_cause, diff_failed,
                   last_bridged>>
    /\ UNCHANGED notExp

BridgeWidths == {0, 2}

BorderWidths == {0, 5}

\* no process_thread is running
PipeIdle ==
    /\ w = 0
    /\ h = 0
    /\ img = <<>>
    /\ picked_colors = <<>>
    /\ layer_ids = <<>>
    /\ config = [max_colors |-> 2, denoise_strength |-> 0, min_blob_size |-> 0,
                 orphaned_blobs |-> FALSE]
    /\ pc = "idle"
    /\ InitPipeLocals

\* lines 1002-1016: the worker has read its parameters
InitExport ==
    /\ is_stencil \in BOOLEAN
    /\ bridge_w \in BridgeWidths
    /\ border_w \in BorderWidths
    /\ epc = "extract"
    /\ ei = 1
    /\ shapely_polys = <<>>
    /\ polys_in = <<>>
    /\ temp_poly = <<>>
    /\ holes_todo = <<>>
    /\ bridged_polys = <<>>
    /\ scene_mesh = {}
    /\ exported = [i \in 1 .. NumLayers |-> {}]
    /\ exp_signals = {}
    /\ built = {}
    /\ geom_failed = {}
    /\ fault = NoFault
    /\ abort_cause = "none"
    /\ diff_failed = {}
    /\ last_bridged = NoPolygon
    /\ PipeIdle
    /\ AppIdle
    /\ SvgIdle
    /\ CtIdle
    /\ PalIdle

NextExport ==
    \/ E_Extract
    \/ B_Poly
    \/ B_Hole
    \/ B_PolyDone
    \/ B_Return
    \/ E_Mesh
    \/ E_Write
    \/ E_Done
    \/ E_Except

SpecExport == InitExport /\ [][NextExport]_vars

-----------------------------------------------------------------------------
(* export_2d_thread, one run.                                              *)
(*                                                                         *)
(* A contour is kept as the region its point sequence encloses.  The       *)
(* foreground of cv2.findContours is 8-connected, so the background is     *)
(* 4-connected.  smooth is at most 0.005 (line 309): on these small grids  *)
(* approxPolyDP removes no corner of a contour.                            *)

SvgW == 3

SvgGrid == Pixels(SvgW, SvgW)

Adj4(p, q) == Abs(p[1] - q[1]) + Abs(p[2] - q[2]) = 1

RECURSIVE GrowBg(_, _)
GrowBg(seed, S) ==
    LET nxt == Eager(seed \cup {q \in S : \E p \in seed : Adj4(p, q)})
    IN  IF nxt = seed THEN seed ELSE GrowBg(nxt, S)

\* the pixels on the edge of the image
Rim(grid) ==
    {p \in grid : \E d \in {<<1, 0>>, <<-1, 0>>, <<0, 1>>, <<0, -1>>} :
                      <<p[1] + d[1], p[2] + d[2]>> \notin grid}

\* the background around region: what is not in it and connected to the edge
\* of the image
Outside(region, grid) == GrowBg(Rim(grid) \ region, grid \ region)

\* what the outer contour of region encloses: the region and its holes
Enclosed(region, grid) == Eager(grid \ Outside(region, grid))

\* the background pixels that mask encloses
HolePixels(mask, grid) == Eager((grid \ mask) \ Outside(mask, grid))

\* line 937, cv2.RETR_EXTERNAL: the outer contours that lie in no other
\* contour, and no contour of a hole
Contours(mask, grid) ==
    {[ring |-> "outer", inside |-> Enclosed(c, grid)] :
        c \in {b \in Components(mask) :
                  \A o \in Components(mask) \ {b} :
                      ~(b \subseteq Enclosed(o, grid))}}

\* the pixels of a region stand in one row, column or diagonal: with
\* CHAIN_APPROX_SIMPLE its contour has one or two points
Straight(region) ==
    \/ \A p, q \in region : p[1] = q[1]
    \/ \A p, q \in region : p[2] = q[2]
    \/ \A p, q \in region : p[1] - p[2] = q[1] - q[2]
    \/ \A p, q \in region : p[1] + p[2] = q[1] + q[2]

\* lines 938-949: one filled path per contour of three points or more
Paths(mask, grid) ==
    {c \in Contours(mask, grid) : ~Straight(c.inside)}

\* the pixels a drawing paints: inside an outer ring and in no hole ring
Painted(paths) ==
    Eager(UNION {c.inside : c \in {b \in paths : b.ring = "outer"}}
            \ UNION {c.inside : c \in {b \in paths : b.ring = "hole"}})

\* lines 928-950 for one layer; dwg.save() may raise
D2_Layer ==
    /\ svg_pc = "layers"
    /\ svg_i <= Len(svg_masks)
    /\ \/ /\ dwgs' = [dwgs EXCEPT ![svg_i] = Paths(svg_masks[svg_i], SvgGrid)]
          /\ svg_i' = svg_i + 1
          /\ UNCHANGED svg_pc
       \/ /\ svg_pc' = "except"
          /\ UNCHANGED <<dwgs, svg_i>>
    /\ UNCHANGED <<svg_masks, svg_signals>>
    /\ UNCHANGED notSvg

\* line 951
D2_Success ==
    /\ svg_pc = "layers"
    /\ svg_i > Len(svg_masks)
    /\ svg_signals' = svg_signals \cup {"Success"}
    /\ svg_pc' = "done"
    /\ UNCHANGED <<svg_masks, svg_i, dwgs>>
    /\ UNCHANGED notSvg

\* lines 952-954
D2_Except ==
    /\ svg_pc = "except"
    /\ svg_signals' = svg_signals \cup {"Error"}
    /\ svg_pc' = "failed"
    /\ UNCHANGED <<svg_masks, svg_i, dwgs>>
    /\ UNCHANGED notSvg

\* lines 921-926: the worker has read the masks of a two-layer result, the
\* second layer being what the first leaves of the image
InitSvg ==
    /\ svg_masks \in {<<m, SvgGrid \ m>> : m \in SUBSET SvgGrid}
    /\ svg_i = 1
    /\ svg_pc = "layers"
    /\ dwgs = [j \in 1 .. 2 |-> {}]
    /\ svg_signals = {}
    /\ PipeIdle
    /\ ExportIdle
    /\ AppIdle
    /\ CtIdle
    /\ PalIdle

NextSvg ==
    \/ D2_Layer
    \/ D2_Success
    \/ D2_Except

SpecSvg == InitSvg /\ [][NextSvg]_vars

-----------------------------------------------------------------------------
(* The contour loop of export_3d_thread (lines 1028-1059), one mask.       *)
(*                                                                         *)
(* Contours are numbered from 0 as cv2.findContours numbers them.  A       *)
(* hierarchy row is <<next, previous, first child, parent>>, the columns   *)
(* 0..3 of the source at positions 1..4.  Of a contour only the number of  *)
(* points approxPolyDP leaves is kept.  What Polygon(...) and buffer(0)    *)
(* make of the rings is open.                                              *)

MaxContours == 3

\* the -1 of the hierarchy rows: no such contour
NoIdx == 0 - 1

\* fewest points of a ring that is kept (lines 1037 and 1048)
MinRing == 3

RingLengths == {MinRing - 1, MinRing}

MinOrNone(S) == IF S = {} THEN NoIdx ELSE CHOOSE x \in S : \A y \in S : x <= y

MaxOrNone(S) == IF S = {} THEN NoIdx ELSE CHOOSE x \in S : \A y \in S : x >= y

\* cv2.RETR_CCOMP: two levels, outer boundaries on top and the boundaries of
\* their holes below; par gives the parent of every contour
ParentMaps(n) ==
    {par \in [0 .. n - 1 -> {NoIdx} \cup (0 .. n - 1)] :
        \A i \in 0 .. n - 1 :
            par[i] # NoIdx => par[i] # i /\ par[par[i]] = NoIdx}

\* the rows of the hierarchy for a parent map: the contours of one parent,
\* and those of the top level, are chained in the order of their numbers
HierarchyOf(par) ==
    [i \in DOMAIN par |->
        <<MinOrNone({k \in DOMAIN par : par[k] = par[i] /\ k > i}),
          MaxOrNone({k \in DOMAIN par : par[k] = par[i] /\ k < i}),
          MinOrNone({k \in DOMAIN par : par[k] = i}),
          par[i]>>]

\* the loop of lines 1042-1052 without the test of line 1048
RECURSIVE ChildRingsUnfiltered(_, _, _)
ChildRingsUnfiltered(hh, len, c) ==
    IF c = NoIdx THEN <<>>
    ELSE <<c>> \o ChildRingsUnfiltered(hh, len, hh[c][1])

\* lines 1042-1052: from the first child along the next links, keeping the
\* rings of at least three points
RECURSIVE ChildRings(_, _, _)
ChildRings(hh, len, c) ==
    IF c = NoIdx THEN <<>>
    ELSE (IF len[c] >= MinRing THEN <<c>> ELSE <<>>)
             \o ChildRings(hh, len, hh[c][1])

\* lines 1054-1059: the constructor raises (except: pass), buffer(0) gives an
\* empty geometry (continue), a Polygon or a MultiPolygon
CleanOutcomes == {"raises", "empty", "Polygon", "MultiPolygon"}

\* lines 1033-1059, one j
CT_Contour ==
    /\ ct_pc = "loop"
    /\ ct_j \in DOMAIN approx_len
    /\ IF hierarchy[ct_j][4] = NoIdx /\ approx_len[ct_j] >= MinRing
       THEN LET poly == [shell |-> ct_j,
                         holes |-> ChildRings(hierarchy, approx_len,
                                              hierarchy[ct_j][3])]
            IN  /\ assembled' = Append(assembled, poly)
                /\ \E outcome \in CleanOutcomes :
                       ct_polys' =
                           IF outcome \in {"Polygon", "MultiPolygon"}
                           THEN Append(ct_polys,
                                       [shell |-> poly.shell, holes |-> poly.holes,
                                        geom |-> outcome])
                           ELSE ct_polys
       ELSE UNCHANGED <<assembled, ct_polys>>
    /\ ct_j' = ct_j + 1
    /\ UNCHANGED <<approx_len, hierarchy, ct_pc>>
    /\ UNCHANGED notCt

\* the loop of line 1033 is over; with no contour hierarchy is None and the
\* loop is not entered (line 1031)
CT_Done ==
    /\ ct_pc = "loop"
    /\ ct_j \notin DOMAIN approx_len
    /\ ct_pc' = "done"
    /\ UNCHANGED <<approx_len, hierarchy, ct_j, ct_polys, assembled>>
    /\ UNCHANGED notCt

\* line 1028 has returned the contours of a mask
InitContour ==
    /\ \E n \in 0 .. MaxContours :
          /\ approx_len \in [0 .. n - 1 -> RingLengths]
          /\ hierarchy \in {HierarchyOf(par) : par \in ParentMaps(n)}
    /\ ct_j = 0
    /\ ct_pc = "loop"
    /\ ct_polys = <<>>
    /\ assembled = <<>>
    /\ PipeIdle
    /\ ExportIdle
    /\ AppIdle
    /\ SvgIdle
    /\ PalIdle

NextContour ==
    \/ CT_Contour
    \/ CT_Done

SpecContour == InitContour /\ [][NextContour]_vars

-----------------------------------------------------------------------------
(* The palette: picked_colors, layer_vars and select_vars are parallel     *)
(* lists, one entry per picked colour; last_select_index is the row of the *)
(* last plain click on a check box.  The indices are the source's (from    *)
(* 0); a TLA+ sequence holds the entry of index i at position i + 1.       *)

\* colours a pixel of the loaded image can have (BGR)
PalColors == {Black, White, Red}

\* the longest palette explored
MaxSwatches == 2

\* the values explored of the Spinboxes "Layer #" (lines 257 and 712: from 1
\* to 999)
MaxLayerId == 3

LayerIds == 1 .. MaxLayerId

\* sum(color) (lines 609, 621)
Brightness(c) == c[1] + c[2] + c[3]

\* del lst[index]
DelAt(lst, index) ==
    [p \in 1 .. Len(lst) - 1 |-> IF p <= index THEN lst[p] ELSE lst[p + 1]]

IdsOf(lv) == {lv[p] : p \in 1 .. Len(lv)}

\* the handler made no call of compact_layer_ids
NoCall == [none |-> TRUE]

\* a renumbering that leaves the ids as they are
KeepLayerIds(lv) == lv

\* lines 666-670: current_ids is the sorted list of the ids in use, id_map
\* sends the id at position new of it to new + 1
compact_layer_ids(lv) ==
    LET current_ids == SortedSeq(IdsOf(lv))
        id_map == [old \in IdsOf(lv) |->
                      CHOOSE new \in 1 .. Len(current_ids) :
                          current_ids[new] = old]
    IN  [p \in 1 .. Len(lv) |-> id_map[lv[p]]]

\* lines 594-597: layer_vars is padded to the length of picked_colors, each
\* new entry one above the largest id so far
RECURSIVE PadLayers(_, _)
PadLayers(lv, n) ==
    IF Len(lv) >= n THEN lv
    ELSE LET existing_ids == IdsOf(lv)
             next_id == IF existing_ids = {} THEN 1
                        ELSE (CHOOSE m \in existing_ids :
                                  \A y \in existing_ids : y <= m) + 1
         IN  PadLayers(Append(lv, next_id), n)

\* lines 598-599
RECURSIVE PadSelects(_, _)
PadSelects(sv, n) ==
    IF Len(sv) >= n THEN sv ELSE PadSelects(Append(sv, FALSE), n)

\* lines 592-630.  The groups are the layer ids in the order of their first
\* colour; list.sort is stable, also with reverse=True, so groups of one
\* mean brightness keep that order and colours of one brightness keep the
\* order of the palette.  The means are compared by cross-multiplication.
reorder_palette_by_similarity(colors, lv0, sv0) ==
    IF colors = <<>> THEN [colors |-> colors, layers |-> lv0, selects |-> sv0]
    ELSE
    LET n == Len(colors)
        lv == PadLayers(lv0, n)
        sv == PadSelects(sv0, n)
        items(lid) == {p \in 1 .. n : lv[p] = lid}
        first(lid) == CHOOSE p \in items(lid) : \A q \in items(lid) : p <= q
        total(lid) == SumSeq([k \in 1 .. Cardinality(items(lid)) |->
                         Brightness(colors[SortedSeq(items(lid))[k]])])
        \* group a is placed before group b
        GroupBefore(a, b) ==
            LET ma == total(a) * Cardinality(items(b))
                mb == total(b) * Cardinality(items(a))
            IN  ma > mb \/ (ma = mb /\ first(a) < first(b))
        lids == {lv[p] : p \in 1 .. n}
        current_layer_num(lid) ==
            1 + Cardinality({a \in lids : a # lid /\ GroupBefore(a, lid)})
        \* item p is placed before item q
        ItemBefore(p, q) ==
            \/ current_layer_num(lv[p]) < current_layer_num(lv[q])
            \/ /\ lv[p] = lv[q]
               /\ \/ Brightness(colors[p]) > Brightness(colors[q])
                  \/ Brightness(colors[p]) = Brightness(colors[q]) /\ p < q
        place(p) == 1 + Cardinality({q \in 1 .. n : q # p /\ ItemBefore(q, p)})
        order == [k \in 1 .. n |-> CHOOSE p \in 1 .. n : place(p) = k]
    IN  [colors  |-> [k \in 1 .. n |-> colors[order[k]]],
         layers  |-> [k \in 1 .. n |-> current_layer_num(lv[order[k]])],
         selects |-> [k \in 1 .. n |-> sv[order[k]]]]

\* lines 682-713: update_pick_ui destroys the rows and builds one per picked
\* colour around layer_vars[i] and select_vars[i]
update_pick_ui(colors) == [n |-> Len(colors), live |-> TRUE]

\* lines 641-646 and 377-385: the three lists are emptied together
ResetPicks ==
    /\ self_picked_colors' = <<>>
    /\ layer_vars' = <<>>
    /\ select_vars' = <<>>
    /\ last_select_index' = 0 - 1
    /\ swatch_rows' = update_pick_ui(<<>>)
    /\ compact_call' = NoCall

-----------------------------------------------------------------------------
(* CamoStudioApp: the Tk main thread, its worker threads and the callbacks *)
(* the workers queue with root.after.  A handler of the main thread is one *)
(* step; a worker is a sequence of steps that interleave with the handlers *)
(* and with each other.  What a run computes is abstracted to the run id,  *)
(* the image and the configuration it was computed from; ui_config stands  *)
(* for the Tk variables and lists that trigger_process copies.             *)

\* worker threads started in one behaviour
MaxRuns == 2

Images == {1, 2}

ConfigChoices == {"default", "edited"}

RunIds == 1 .. MaxRuns

Started == {r \in RunIds : runs[r].kind # "none"}

\* the workers of one kind that have not returned
Active(kind) == {r \in RunIds : runs[r].kind = kind /\ runs[r].wpc # "end"}

\* threading.Thread(target = ..., args = ...).start()
StartWorker(kind, image, cfg) ==
    LET r == Cardinality(Started) + 1
    IN  /\ r \in RunIds
        /\ runs' = [runs EXCEPT ![r] =
                       [NoRun EXCEPT !.kind = kind, !.wpc = "start",
                                     !.image = image, !.cfg = cfg,
                                     !.bridge_at_start = exp_bridge]]

After(callbacks) == tk_queue' = tk_queue \o callbacks

\* the failure no longer reported
ReportNothing(told) == told

\* print(e), messagebox.showerror
ReportFailure(told) == told \cup {"failed"}

\* the status line and messagebox.showinfo
ReportCompletion(told) == told \cup {"completed"}

\* ---- handlers of the main thread ----

\* lines 398-431, the image read from a chosen file: reset_picks (lines
\* 641-649) forgets the result tabs; processed_data and preview_images are
\* not touched
load_image(i) ==
    /\ cv_original_full' = i
    /\ ResetPicks
    /\ tabs' = NoTabs
    /\ lbl_status' = "Loaded"
    /\ UNCHANGED <<ui_config, exp_bridge, win3d_open, preview_images,
                   runs, tk_queue, signals, processed_data>>
    /\ UNCHANGED notAppPal

\* lines 367-396
reset_project ==
    /\ cv_original_full' = 0
    /\ ResetPicks
    /\ processed_data' = NoData
    /\ preview_images' = NoPreviews
    /\ tabs' = NoTabs
    /\ lbl_status' = "Project cleared."
    /\ UNCHANGED <<ui_config, exp_bridge, win3d_open, runs, tk_queue, signals>>
    /\ UNCHANGED notAppPal

\* an entry of the configuration window (lines 295-321) is edited
EditConfig(v) ==
    /\ v # ui_config
    /\ ui_config' = v
    /\ UNCHANGED <<cv_original_full, exp_bridge, win3d_open, preview_images,
                   tabs, lbl_status, runs, tk_queue, signals, processed_data>>
    /\ UNCHANGED notApp

\* lines 323-354
open_3d_export_window ==
    /\ processed_data # NoData
    /\ ~win3d_open
    /\ win3d_open' = TRUE
    /\ UNCHANGED <<cv_original_full, ui_config, exp_bridge, preview_images,
                   tabs, lbl_status, runs, tk_queue, signals, processed_data>>
    /\ UNCHANGED notApp

\* the Stencil Bridge Width entry of the export window (line 350) is edited
EditBridge(v) ==
    /\ win3d_open
    /\ v # exp_bridge
    /\ exp_bridge' = v
    /\ UNCHANGED <<cv_original_full, ui_config, win3d_open, preview_images,
                   tabs, lbl_status, runs, tk_queue, signals, processed_data>>
    /\ UNCHANGED notApp

\* lines 356-365, a directory chosen
trigger_3d_export ==
    /\ win3d_open
    /\ win3d_open' = FALSE
    /\ StartWorker("export3d", 0, "none")
    /\ UNCHANGED <<cv_original_full, ui_config, exp_bridge, preview_images,
                   tabs, lbl_status, tk_queue, signals, processed_data>>
    /\ UNCHANGED notApp

\* lines 908-917, a directory chosen
export_bundle_2d ==
    /\ processed_data # NoData
    /\ StartWorker("export2d", 0, "none")
    /\ UNCHANGED <<cv_original_full, ui_config, exp_bridge, win3d_open,
                   preview_images, tabs, lbl_status, tk_queue, signals,
                   processed_data>>
    /\ UNCHANGED notApp

\* lines 715-734
trigger_process ==
    /\ cv_original_full # 0
    /\ lbl_status' = "Processing..."
    /\ StartWorker("process", cv_original_full, ui_config)
    /\ UNCHANGED <<cv_original_full, ui_config, exp_bridge, win3d_open,
                   preview_images, tabs, tk_queue, signals, processed_data>>
    /\ UNCHANGED notApp

\* ---- process_thread ----

\* lines 738-863: resize, clustering, masks, merge and orphan step; any of
\* them may raise
PT_Compute(r) ==
    /\ runs[r].kind = "process"
    /\ runs[r].wpc = "start"
    /\ \E raises \in BOOLEAN :
          runs' = [runs EXCEPT ![r].wpc = IF raises THEN "except" ELSE "publish",
                               ![r].raised = raises]
    /\ UNCHANGED <<cv_original_full, ui_config, exp_bridge, win3d_open,
                   preview_images, tabs, lbl_status, tk_queue, signals,
                   processed_data>>
    /\ UNCHANGED notApp

\* lines 865-870
PT_Publish(r) ==
    /\ runs[r].kind = "process"
    /\ runs[r].wpc = "publish"
    /\ processed_data' = [run |-> r, image |-> runs[r].image, cfg |-> runs[r].cfg]
    /\ runs' = [runs EXCEPT ![r].wpc = "after"]
    /\ UNCHANGED <<cv_original_full, ui_config, exp_bridge, win3d_open,
                   preview_images, tabs, lbl_status, tk_queue, signals>>
    /\ UNCHANGED notApp

\* lines 871-872
PT_After(r) ==
    /\ runs[r].kind = "process"
    /\ runs[r].wpc = "after"
    /\ After(<<[name |-> "_generate_previews", run |-> r],
               [name |-> "update_ui_after_process", run |-> r]>>)
    /\ runs' = [runs EXCEPT ![r].wpc = "end"]
    /\ UNCHANGED <<cv_original_full, ui_config, exp_bridge, win3d_open,
                   preview_images, tabs, lbl_status, signals, processed_data>>
    /\ UNCHANGED notApp

\* the except branch that also publishes what the run had computed
PT_ExceptPublishes(r) ==
    /\ runs[r].kind = "process"
    /\ runs[r].wpc = "except"
    /\ signals' = [signals EXCEPT ![r] = ReportFailure(@)]
    /\ processed_data' = [run |-> r, image |-> runs[r].image, cfg |-> runs[r].cfg]
    /\ After(<<[name |-> "progress.stop", run |-> r]>>)
    /\ runs' = [runs EXCEPT ![r].wpc = "end"]
    /\ UNCHANGED <<cv_original_full, ui_config, exp_bridge, win3d_open,
                   preview_images, tabs, lbl_status>>
    /\ UNCHANGED notApp

\* lines 874-876
PT_Except(r) ==
    /\ runs[r].kind = "process"
    /\ runs[r].wpc = "except"
    /\ signals' = [signals EXCEPT ![r] = ReportFailure(@)]
    /\ After(<<[name |-> "progress.stop", run |-> r]>>)
    /\ runs' = [runs EXCEPT ![r].wpc = "end"]
    /\ UNCHANGED <<cv_original_full, ui_config, exp_bridge, win3d_open,
                   preview_images, tabs, lbl_status, processed_data>>
    /\ UNCHANGED notApp

\* the keys an export worker reads, in the order of lines 921-924 and
\* 1003-1006
ReadKeys == <<"centers", "masks", "width", "height">>

\* self.processed_data[key] for the next key: the worker of run reads what
\* the attribute holds now
ReadKey(run) ==
    IF processed_data = NoData
    THEN [run EXCEPT !.raised = TRUE, !.wpc = "except"]
    ELSE [run EXCEPT !.data = Append(@, processed_data),
                     !.wpc = IF Len(run.data) + 1 = Len(ReadKeys)
                             THEN "layers" ELSE "start"]

\* ---- export_2d_thread ----

\* lines 921-924, one of the four subscriptions of self.processed_data:
\* each reads the attribute anew; subscripting None raises
X2_Read(r) ==
    /\ runs[r].kind = "export2d"
    /\ runs[r].wpc = "start"
    /\ runs' = [runs EXCEPT ![r] = ReadKey(@)]
    /\ UNCHANGED <<cv_original_full, ui_config, exp_bridge, win3d_open,
                   preview_images, tabs, lbl_status, tk_queue, signals,
                   processed_data>>
    /\ UNCHANGED notApp

\* lines 928-950: the files are written, or a write raises
X2_Layers(r) ==
    /\ runs[r].kind = "export2d"
    /\ runs[r].wpc = "layers"
    /\ \E raises \in BOOLEAN :
          runs' = [runs EXCEPT ![r].wpc = IF raises THEN "except" ELSE "success",
                               ![r].raised = raises]
    /\ UNCHANGED <<cv_original_full, ui_config, exp_bridge, win3d_open,
                   preview_images, tabs, lbl_status, tk_queue, signals,
                   processed_data>>
    /\ UNCHANGED notApp

\* line 951
X2_Success(r) ==
    /\ runs[r].kind = "export2d"
    /\ runs[r].wpc = "success"
    /\ After(<<[name |-> "showinfo", run |-> r]>>)
    /\ runs' = [runs EXCEPT ![r].wpc = "end"]
    /\ UNCHANGED <<cv_original_full, ui_config, exp_bridge, win3d_open,
                   preview_images, tabs, lbl_status, signals, processed_data>>
    /\ UNCHANGED notApp

\* lines 952-954
X2_Except(r) ==
    /\ runs[r].kind = "export2d"
    /\ runs[r].wpc = "except"
    /\ signals' = [signals EXCEPT ![r] = ReportFailure(@)]
    /\ After(<<[name |-> "showerror", run |-> r]>>)
    /\ runs' = [runs EXCEPT ![r].wpc = "end"]
    /\ UNCHANGED <<cv_original_full, ui_config, exp_bridge, win3d_open,
                   preview_images, tabs, lbl_status, processed_data>>
    /\ UNCHANGED notApp

\* ---- export_3d_thread, in stencil mode (exp_invert as constructed) ----

\* lines 1003-1006, one of the four subscriptions of self.processed_data
X3_Read(r) ==
    /\ runs[r].kind = "export3d"
    /\ runs[r].wpc = "start"
    /\ runs' = [runs EXCEPT ![r] = ReadKey(@)]
    /\ UNCHANGED <<cv_original_full, ui_config, exp_bridge, win3d_open,
                   preview_images, tabs, lbl_status, tk_queue, signals,
                   processed_data>>
    /\ UNCHANGED notApp

\* lines 1018-1119, one layer (the one after those whose bridge width is in
\* used): line 1063 reads self.exp_bridge
X3_Layer(r) ==
    /\ runs[r].kind = "export3d"
    /\ runs[r].wpc = "layers"
    /\ \E raises \in BOOLEAN :
          runs' = [runs EXCEPT ![r].used = Append(@, exp_bridge),
                               ![r].raised = raises,
                               ![r].wpc = IF raises THEN "except"
                                          ELSE IF Len(runs[r].used) + 1 = NumLayers
                                          THEN "success" ELSE "layers"]
    /\ UNCHANGED <<cv_original_full, ui_config, exp_bridge, win3d_open,
                   preview_images, tabs, lbl_status, tk_queue, signals,
                   processed_data>>
    /\ UNCHANGED notApp

\* lines 1121-1122
X3_Success(r) ==
    /\ runs[r].kind = "export3d"
    /\ runs[r].wpc = "success"
    /\ After(<<[name |-> "showinfo", run |-> r],
               [name |-> "3D Export Complete.", run |-> r]>>)
    /\ runs' = [runs EXCEPT ![r].wpc = "end"]
    /\ UNCHANGED <<cv_original_full, ui_config, exp_bridge, win3d_open,
                   preview_images, tabs, lbl_status, signals, processed_data>>
    /\ UNCHANGED notApp

\* lines 1124-1128
X3_Except(r) ==
    /\ runs[r].kind = "export3d"
    /\ runs[r].wpc = "except"
    /\ signals' = [signals EXCEPT ![r] = ReportFailure(@)]
    /\ After(<<[name |-> "showerror", run |-> r],
               [name |-> "progress.stop", run |-> r]>>)
    /\ runs' = [runs EXCEPT ![r].wpc = "end"]
    /\ UNCHANGED <<cv_original_full, ui_config, exp_bridge, win3d_open,
                   preview_images, tabs, lbl_status, processed_data>>
    /\ UNCHANGED notApp

\* ---- callbacks of root.after, run by the main thread in queue order ----

Queued(name) == tk_queue # <<>> /\ Head(tk_queue).name = name

\* lines 878-886, called with the centers and masks of the run that queued it
Tk_generate_previews ==
    /\ Queued("_generate_previews")
    /\ preview_images' = [run |-> Head(tk_queue).run]
    /\ tk_queue' = Tail(tk_queue)
    /\ UNCHANGED <<cv_original_full, ui_config, exp_bridge, win3d_open, tabs,
                   lbl_status, runs, signals, processed_data>>
    /\ UNCHANGED notApp

\* lines 888-900: the status is set and the tabs are forgotten before line
\* 895 looks up preview_images["All"] and line 896 subscripts processed_data
Tk_update_ui_after_process ==
    /\ Queued("update_ui_after_process")
    /\ lbl_status' = "Processing Complete."
    /\ signals' = [signals EXCEPT ![Head(tk_queue).run] = ReportCompletion(@)]
    /\ tabs' = IF preview_images = NoPreviews THEN NoTabs
               ELSE IF processed_data = NoData
               THEN [previews |-> preview_images.run, centers |-> 0]
               ELSE [previews |-> preview_images.run,
                     centers |-> processed_data.run]
    /\ tk_queue' = Tail(tk_queue)
    /\ UNCHANGED <<cv_original_full, ui_config, exp_bridge, win3d_open,
                   preview_images, runs, processed_data>>
    /\ UNCHANGED notApp

\* self.progress.stop
Tk_progress_stop ==
    /\ Queued("progress.stop")
    /\ tk_queue' = Tail(tk_queue)
    /\ UNCHANGED <<cv_original_full, ui_config, exp_bridge, win3d_open,
                   preview_images, tabs, lbl_status, runs, signals,
                   processed_data>>
    /\ UNCHANGED notApp

\* messagebox.showinfo("Success", ...), lines 951 and 1121
Tk_showinfo ==
    /\ Queued("showinfo")
    /\ signals' = [signals EXCEPT ![Head(tk_queue).run] = ReportCompletion(@)]
    /\ tk_queue' = Tail(tk_queue)
    /\ UNCHANGED <<cv_original_full, ui_config, exp_bridge, win3d_open,
                   preview_images, tabs, lbl_status, runs, processed_data>>
    /\ UNCHANGED notApp

\* line 1122
Tk_status_3d ==
    /\ Queued("3D Export Complete.")
    /\ lbl_status' = "3D Export Complete."
    /\ tk_queue' = Tail(tk_queue)
    /\ UNCHANGED <<cv_original_full, ui_config, exp_bridge, win3d_open,
                   preview_images, tabs, runs, signals, processed_data>>
    /\ UNCHANGED notApp

\* messagebox.showerror, lines 954 and 1127.  The lambda of line 954 reads e,
\* which is unbound once the worker has left its except clause: the callback
\* then raises NameError and shows nothing.  The failure was printed at line
\* 953 either way.
Tk_showerror ==
    /\ Queued("showerror")
    /\ \E shown \in IF runs[Head(tk_queue).run].kind = "export2d"
                     THEN BOOLEAN ELSE {TRUE} :
          signals' = [signals EXCEPT ![Head(tk_queue).run] =
                         IF shown THEN ReportFailure(@) ELSE @]
    /\ tk_queue' = Tail(tk_queue)
    /\ UNCHANGED <<cv_original_full, ui_config, exp_bridge, win3d_open,
                   preview_images, tabs, lbl_status, runs, processed_data>>
    /\ UNCHANGED notApp

TkDispatch ==
    \/ Tk_generate_previews
    \/ Tk_update_ui_after_process
    \/ Tk_progress_stop
    \/ Tk_showinfo
    \/ Tk_status_3d
    \/ Tk_showerror

WorkerStep(r) ==
    \/ PT_Compute(r)
    \/ PT_Publish(r)
    \/ PT_After(r)
    \/ PT_Except(r)
    \/ X2_Read(r)
    \/ X2_Layers(r)
    \/ X2_Success(r)
    \/ X2_Except(r)
    \/ X3_Read(r)
    \/ X3_Layer(r)
    \/ X3_Success(r)
    \/ X3_Except(r)

\* lines 82-130: the application as constructed
Init ==
    /\ cv_original_full = 0
    /\ ui_config = "default"
    /\ exp_bridge = 2
    /\ win3d_open = FALSE
    /\ preview_images = NoPreviews
    /\ tabs = NoTabs
    /\ lbl_status = "Ready."
    /\ runs = [r \in RunIds |-> NoRun]
    /\ tk_queue = <<>>
    /\ signals = [r \in RunIds |-> {}]
    /\ PipeIdle
    /\ ExportIdle
    /\ SvgIdle
    /\ CtIdle
    /\ PalIdle

Next ==
    \/ \E i \in Images : load_image(i)
    \/ reset_project
    \/ \E v \in ConfigChoices : EditConfig(v)
    \/ open_3d_export_window
    \/ \E v \in BridgeWidths : EditBridge(v)
    \/ trigger_3d_export
    \/ export_bundle_2d
    \/ trigger_process
    \/ \E r \in RunIds : PT_Compute(r)
    \/ \E r \in RunIds : PT_Publish(r)
    \/ \E r \in RunIds : PT_After(r)
    \/ \E r \in RunIds : PT_Except(r)
    \/ \E r \in RunIds : X2_Read(r)
    \/ \E r \in RunIds : X2_Layers(r)
    \/ \E r \in RunIds : X2_Success(r)
    \/ \E r \in RunIds : X2_Except(r)
    \/ \E r \in RunIds : X3_Read(r)
    \/ \E r \in RunIds : X3_Layer(r)
    \/ \E r \in RunIds : X3_Success(r)
    \/ \E r \in RunIds : X3_Except(r)
    \/ Tk_generate_previews
    \/ Tk_update_ui_after_process
    \/ Tk_progress_stop
    \/ Tk_showinfo
    \/ Tk_status_3d
    \/ Tk_showerror

Spec == Init /\ [][Next]_vars

\* the id of a run that completed before the behaviour starts
PriorRun == MaxRuns + 1

\* the application after one completed run on image 1: the result is
\* published (lines 865-870), the previews and the tabs are in place
InitLoaded ==
    /\ cv_original_full = 1
    /\ ui_config = "default"
    /\ exp_bridge = 2
    /\ win3d_open = FALSE
    /\ processed_data = [run |-> PriorRun, image |-> 1, cfg |-> "default"]
    /\ preview_images = [run |-> PriorRun]
    /\ tabs = [previews |-> PriorRun, centers |-> PriorRun]
    /\ lbl_status = "Processing Complete."
    /\ runs = [r \in RunIds |-> NoRun]
    /\ tk_queue = <<>>
    /\ signals = [r \in RunIds |-> {}]
    /\ w = 0
    /\ h = 0
    /\ img = <<>>
    /\ picked_colors = <<>>
    /\ layer_ids = <<>>
    /\ config = [max_colors |-> 2, denoise_strength |-> 0, min_blob_size |-> 0,
                 orphaned_blobs |-> FALSE]
    /\ pc = "idle"
    /\ labels_reshaped = NoLabels
    /\ raw_centers = <<>>
    /\ raw_masks = <<>>
    /\ final_masks = <<>>
    /\ final_centers = <<>>
    /\ total_coverage_mask = {}
    /\ todo = <<>>
    /\ pre_filter = <<>>
    /\ first_labels = NoLabels
    /\ attempts = 0
    /\ rand_c = <<>>
    /\ last_draw = NoDraw
    /\ ExportIdle
    /\ SvgIdle
    /\ CtIdle
    /\ PalIdle

\* the user starts runs and exports, and leaves the image, the project and
\* the settings as they are
NextLoaded ==
    \/ open_3d_export_window
    \/ trigger_3d_export
    \/ export_bundle_2d
    \/ trigger_process
    \/ \E r \in RunIds : PT_Compute(r)
    \/ \E r \in RunIds : PT_Publish(r)
    \/ \E r \in RunIds : PT_After(r)
    \/ \E r \in RunIds : PT_Except(r)
    \/ \E r \in RunIds : X2_Read(r)
    \/ \E r \in RunIds : X2_Layers(r)
    \/ \E r \in RunIds : X2_Success(r)
    \/ \E r \in RunIds : X2_Except(r)
    \/ \E r \in RunIds : X3_Read(r)
    \/ \E r \in RunIds : X3_Layer(r)
    \/ \E r \in RunIds : X3_Success(r)
    \/ \E r \in RunIds : X3_Except(r)
    \/ Tk_generate_previews
    \/ Tk_update_ui_after_process
    \/ Tk_progress_stop
    \/ Tk_showinfo
    \/ Tk_status_3d
    \/ Tk_showerror

SpecLoaded == InitLoaded /\ [][NextLoaded]_vars

-----------------------------------------------------------------------------
(* The handlers of the palette.  A handler that a Tk binding or a button   *)
(* calls is one step.  An exception that leaves a handler is reported by   *)
(* Tk and the main loop goes on, with what the handler had assigned so far. *)

\* what a handler of the palette leaves alone of the application
palApp == <<ui_config, exp_bridge, win3d_open, preview_images, runs, tk_queue,
            signals>>

\* lines 576-590: the colour of the pixel clicked is appended unless the
\* palette holds it
on_canvas_click(c) ==
    /\ cv_original_full # 0
    /\ Len(self_picked_colors) < MaxSwatches
    /\ IF \E p \in 1 .. Len(self_picked_colors) : self_picked_colors[p] = c
       THEN /\ lbl_status' = "Color already in palette."
            /\ UNCHANGED <<self_picked_colors, layer_vars, select_vars,
                           swatch_rows>>
       ELSE LET r == reorder_palette_by_similarity(
                         Append(self_picked_colors, c), layer_vars,
                         select_vars)
            IN  /\ self_picked_colors' = r.colors
                /\ layer_vars' = r.layers
                /\ select_vars' = r.selects
                /\ swatch_rows' = update_pick_ui(r.colors)
                /\ lbl_status' = "Color added & sorted."
    /\ compact_call' = NoCall
    /\ UNCHANGED <<last_select_index, cv_original_full, tabs>>
    /\ UNCHANGED <<palApp, notPal>>

\* line 692, the button Resort of the header update_pick_ui builds over a
\* palette that is not empty
Resort ==
    /\ swatch_rows.n > 0
    /\ LET r == reorder_palette_by_similarity(self_picked_colors, layer_vars,
                                              select_vars)
       IN  /\ self_picked_colors' = r.colors
           /\ layer_vars' = r.layers
           /\ select_vars' = r.selects
           /\ swatch_rows' = update_pick_ui(r.colors)
    /\ compact_call' = NoCall
    /\ UNCHANGED <<last_select_index, cv_original_full, tabs, lbl_status>>
    /\ UNCHANGED <<palApp, notPal>>

\* lines 632-639, called by the label X of row index (line 709).  del
\* self.layer_vars[index] raises IndexError when the list is shorter than
\* picked_colors, after the colour has been deleted.
remove_color(index) ==
    /\ index \in 0 .. swatch_rows.n - 1
    /\ IF index < Len(self_picked_colors)
       THEN IF index < Len(layer_vars)
            THEN LET before == DelAt(layer_vars, index)
                 IN  /\ self_picked_colors' = DelAt(self_picked_colors, index)
                     /\ layer_vars' = compact_layer_ids(before)
                     /\ select_vars' = DelAt(select_vars, index)
                     /\ compact_call' = [before |-> before,
                                         after  |-> layer_vars']
                     /\ swatch_rows' = update_pick_ui(self_picked_colors')
                     /\ lbl_status' = "Color removed."
            ELSE /\ self_picked_colors' = DelAt(self_picked_colors, index)
                 /\ compact_call' = NoCall
                 /\ UNCHANGED <<layer_vars, select_vars, swatch_rows,
                                lbl_status>>
       ELSE /\ compact_call' = NoCall
            /\ UNCHANGED <<self_picked_colors, layer_vars, select_vars,
                           swatch_rows, lbl_status>>
    /\ UNCHANGED <<last_select_index, cv_original_full, tabs>>
    /\ UNCHANGED <<palApp, notPal>>

\* lines 641-649, the button Clear List (line 252)
reset_picks ==
    /\ ResetPicks
    /\ tabs' = IF cv_original_full # 0 THEN NoTabs ELSE tabs
    /\ UNCHANGED <<cv_original_full, lbl_status>>
    /\ UNCHANGED <<palApp, notPal>>

\* lines 651-664, the button Apply with target in the Spinbox of line 257
apply_bulk_layer(target) ==
    /\ IF \E p \in 1 .. Len(select_vars) : select_vars[p]
       THEN LET before == [p \in 1 .. Len(layer_vars) |->
                              IF p <= Len(select_vars) /\ select_vars[p]
                              THEN target ELSE layer_vars[p]]
            IN  /\ layer_vars' = compact_layer_ids(before)
                /\ select_vars' = [p \in 1 .. Len(select_vars) |-> FALSE]
                /\ compact_call' = [before |-> before, after |-> layer_vars']
                /\ swatch_rows' = update_pick_ui(self_picked_colors)
                /\ lbl_status' =
                       "Bulk assignment complete. Layers re-numbered."
       ELSE /\ compact_call' = NoCall
            /\ UNCHANGED <<layer_vars, select_vars, swatch_rows, lbl_status>>
    /\ UNCHANGED <<self_picked_colors, last_select_index, cv_original_full,
                   tabs>>
    /\ UNCHANGED <<palApp, notPal>>

\* line 712: the Spinbox of row index writes the IntVar the row was built
\* around
Spin_Layer(index, v) ==
    /\ swatch_rows.live
    /\ index \in 0 .. swatch_rows.n - 1
    /\ v # layer_vars[index + 1]
    /\ layer_vars' = [layer_vars EXCEPT ![index + 1] = v]
    /\ compact_call' = NoCall
    /\ UNCHANGED <<self_picked_colors, select_vars, last_select_index,
                   swatch_rows, cv_original_full, tabs, lbl_status>>
    /\ UNCHANGED <<palApp, notPal>>

\* the class binding of a Checkbutton toggles the BooleanVar the row was
\* built around, after the bindings of lines 705-706
Toggled(sv, index) ==
    IF swatch_rows.live /\ index < Len(sv)
    THEN [sv EXCEPT ![index + 1] = ~@]
    ELSE sv

\* line 706 and lines 679-680: a click on the check box of row index
Chk_Button1(index) ==
    /\ index \in 0 .. swatch_rows.n - 1
    /\ last_select_index' = index
    /\ select_vars' = Toggled(select_vars, index)
    /\ compact_call' = NoCall
    /\ UNCHANGED <<self_picked_colors, layer_vars, swatch_rows,
                   cv_original_full, tabs, lbl_status>>
    /\ UNCHANGED <<palApp, notPal>>

\* select_vars[i].set(True) of line 678 for the i of the range that exist:
\* the loop raises IndexError at the first i that does not
RangeSet(sv, start, end) ==
    [p \in 1 .. Len(sv) |-> IF start + 1 <= p /\ p <= end + 1
                            THEN TRUE ELSE sv[p]]

\* line 705 and lines 673-678: a click with the shift key held on the check
\* box of row index
Chk_ShiftButton1(index) ==
    /\ index \in 0 .. swatch_rows.n - 1
    /\ LET start == IF last_select_index < index THEN last_select_index
                    ELSE index
           end   == IF last_select_index < index THEN index
                    ELSE last_select_index
           sv    == IF last_select_index # 0 - 1
                    THEN RangeSet(select_vars, start, end)
                    ELSE select_vars
       IN  select_vars' = Toggled(sv, index)
    /\ compact_call' = NoCall
    /\ UNCHANGED <<self_picked_colors, layer_vars, last_select_index,
                   swatch_rows, cv_original_full, tabs, lbl_status>>
    /\ UNCHANGED <<palApp, notPal>>

\* the rows of np.unique(..., axis=0) are in lexicographic order (line 540)
LexLess(a, b) ==
    \/ a[1] < b[1]
    \/ a[1] = b[1] /\ a[2] < b[2]
    \/ a[1] = b[1] /\ a[2] = b[2] /\ a[3] < b[3]

RECURSIVE UniqueColors(_)
UniqueColors(S) ==
    IF S = {} THEN <<>>
    ELSE LET m == CHOOSE x \in S : \A y \in S \ {x} : LexLess(x, y)
         IN  <<m>> \o UniqueColors(S \ {m})

\* the values explored of config["max_colors"] at line 556
TargetLayers == 1 .. MaxSwatches

\* cv2.kmeans of line 561: a label below target_layers for each colour of
\* the palette, every cluster with a colour; the random centres decide
\* which
PaletteLabels(n, target_layers) ==
    {lab \in [1 .. n -> 0 .. target_layers - 1] :
        \A k \in 0 .. target_layers - 1 : \E p \in 1 .. n : lab[p] = k}

\* lines 562-571: the clusters ordered by the sum of their centre, the mean
\* of the brightness of their colours, brightest first; sort is stable
cluster_to_layer_map(colors, lab, target_layers) ==
    LET members(k) == {p \in 1 .. Len(colors) : lab[p] = k}
        total(k) == SumSeq([j \in 1 .. Cardinality(members(k)) |->
                        Brightness(colors[SortedSeq(members(k))[j]])])
        Before(a, b) ==
            LET ma == total(a) * Cardinality(members(b))
                mb == total(b) * Cardinality(members(a))
            IN  ma > mb \/ (ma = mb /\ a < b)
    IN  [k \in 0 .. target_layers - 1 |->
            1 + Cardinality({a \in 0 .. target_layers - 1 :
                                a # k /\ Before(a, k)})]

\* lines 518-574 on an image whose colours are the set S; an image of 64
\* colours at most gives the palette its colours.  last_select_index is not
\* assigned.
yolo_scan(S, target_layers) ==
    /\ cv_original_full # 0
    /\ S # {}
    /\ Cardinality(S) <= MaxSwatches
    /\ LET r == reorder_palette_by_similarity(UniqueColors(S), <<>>, <<>>)
           n == Len(r.colors)
       IN  /\ self_picked_colors' = r.colors
           /\ select_vars' = r.selects
           /\ IF n > target_layers
              THEN \E lab \in PaletteLabels(n, target_layers) :
                      layer_vars' =
                          [p \in 1 .. n |->
                              cluster_to_layer_map(r.colors, lab,
                                                   target_layers)[lab[p]]]
              ELSE layer_vars' = r.layers
           /\ swatch_rows' = update_pick_ui(r.colors)
    /\ lbl_status' = "YOLO Mode"
    /\ compact_call' = NoCall
    /\ UNCHANGED <<last_select_index, cv_original_full, tabs>>
    /\ UNCHANGED <<palApp, notPal>>

\* the longest list of a project file explored
MaxFileLen == 2

ListsOver(S) == UNION {SeqsOfLen(S, n) : n \in 0 .. MaxFileLen}

\* the image the project files explored name
ProjectImage == 1

\* the project files explored: JSON with an image path that exists, a list
\* "colors" and a value "layers" that is a list of ids or null
ProjectFiles ==
    {f \in [image : {ProjectImage}, colors : ListsOver(PalColors),
            layers : ListsOver(LayerIds), layers_null : BOOLEAN] :
        f.layers_null => f.layers = <<>>}

\* lines 467-516.  load_image(from_path) does not reset the picks.  With
\* "layers": null the len(saved_layers) of line 508 raises TypeError in the
\* first round of the loop, after picked_colors, layer_vars and select_vars
\* have been assigned and before update_pick_ui: the except clause shows the
\* error and the rows on screen keep the variables of the lists replaced.
\* last_select_index is not assigned.
load_project_json(f) ==
    /\ cv_original_full' = f.image
    /\ self_picked_colors' = f.colors
    /\ IF f.layers_null /\ f.colors # <<>>
       THEN /\ layer_vars' = <<>>
            /\ select_vars' = <<>>
            /\ swatch_rows' = [swatch_rows EXCEPT !.live = (swatch_rows.n = 0)]
            /\ lbl_status' = "Loaded"
       ELSE /\ layer_vars' = [p \in 1 .. Len(f.colors) |->
                                 IF p <= Len(f.layers) THEN f.layers[p]
                                 ELSE 1]
            /\ select_vars' = [p \in 1 .. Len(f.colors) |-> FALSE]
            /\ swatch_rows' = update_pick_ui(f.colors)
            /\ lbl_status' = "Project loaded"
    /\ compact_call' = NoCall
    /\ UNCHANGED <<last_select_index, tabs, processed_data>>
    /\ UNCHANGED <<palApp, notAppPal>>

NextPalette ==
    \/ \E i \in Images : load_image(i)
    \/ reset_project
    \/ \E f \in ProjectFiles : load_project_json(f)
    \/ \E c \in PalColors : on_canvas_click(c)
    \/ Resort
    \/ \E index \in 0 .. MaxSwatches - 1 : remove_color(index)
    \/ reset_picks
    \/ \E target \in LayerIds : apply_bulk_layer(target)
    \/ \E index \in 0 .. MaxSwatches - 1, v \in LayerIds : Spin_Layer(index, v)
    \/ \E index \in 0 .. MaxSwatches - 1 : Chk_Button1(index)
    \/ \E index \in 0 .. MaxSwatches - 1 : Chk_ShiftButton1(index)
    \/ \E S \in SUBSET PalColors, target_layers \in TargetLayers :
          yolo_scan(S, target_layers)

SpecPalette == Init /\ [][NextPalette]_vars

\* the threads are scheduled and the Tk main loop runs: a worker that can
\* take a step takes it, a queued callback is called
FairSpec ==
    /\ Spec
    /\ WF_vars(TkDispatch)
    /\ \A r \in RunIds : WF_vars(WorkerStep(r))

-----------------------------------------------------------------------------
(* Claims *)

\* C1: in manual mode every pixel gets the index of a palette colour at
\* minimal squared Euclidean distance, the lowest such index on a tie, and a
\* second run on the same image and palette gives the same label grid.
C1_NearestLowestIndex ==
    (pc = "raw" /\ Manual) =>
        /\ \A p \in Grid :
              LET l == labels_reshaped[p]
              IN  /\ l \in 0 .. Len(picked_colors) - 1
                  /\ \A j \in 0 .. Len(picked_colors) - 1 :
                        /\ SqDist(img[p], picked_colors[l + 1])
                              <= SqDist(img[p], picked_colors[j + 1])
                        /\ j < l => SqDist(img[p], picked_colors[l + 1])
                                       < SqDist(img[p], picked_colors[j + 1])
        /\ first_labels # NoLabels => labels_reshaped = first_labels

\* a second run has labelled a pixel that is equally near two palette colours
C1_Witness ==
    /\ pc = "raw"
    /\ first_labels # NoLabels
    /\ \E p \in Grid : \E j, k \in 1 .. Len(picked_colors) :
          /\ j < k
          /\ picked_colors[j] # picked_colors[k]
          /\ SqDist(img[p], picked_colors[j]) = SqDist(img[p], picked_colors[k])
          /\ labels_reshaped[p] = j - 1

\* C2: every 8-connected component of every published layer mask has at
\* least min_blob_size pixels; the filter zeroes every smaller component of
\* its input and sets no pixel its input did not have.
C2_NoSmallBlob ==
    processed_data # NoData =>
        \A i \in 1 .. Len(processed_data.masks) :
            LET m == processed_data.masks[i]
            IN  /\ \A c \in Components(m) : Cardinality(c) >= config.min_blob_size
                /\ m \subseteq pre_filter[i]
                /\ \A c \in Components(pre_filter[i]) :
                      Cardinality(c) < config.min_blob_size => c \cap m = {}

\* a published mask kept one component and lost a smaller one
C2_Witness ==
    /\ processed_data # NoData
    /\ config.min_blob_size >= 2
    /\ \E i \in 1 .. Len(processed_data.masks) :
          /\ processed_data.masks[i] # {}
          /\ processed_data.masks[i] # pre_filter[i]

\* C3: manual mode, denoise 0, minimum blob 0, no orphan detection: every
\* pixel is set in exactly one published layer mask.
C3_Partition ==
    (/\ processed_data # NoData
     /\ Manual
     /\ config.denoise_strength = 0
     /\ config.min_blob_size = 0
     /\ ~config.orphaned_blobs) =>
        \A p \in Grid :
            Cardinality({i \in 1 .. Len(processed_data.masks) :
                            p \in processed_data.masks[i]}) = 1

\* such a run published two non-empty layers, one of them merged from two
\* palette colours
C3_Witness ==
    /\ processed_data # NoData
    /\ Manual
    /\ config.denoise_strength = 0
    /\ config.min_blob_size = 0
    /\ ~config.orphaned_blobs
    /\ Len(processed_data.masks) = 2
    /\ \A i \in 1 .. 2 : processed_data.masks[i] # {}
    /\ Len(picked_colors) > 2

\* C4 as stated: for a polygon with at least one hole, every polygon
\* apply_stencil_bridges returns has zero interior rings.
C4_NoHoleSurvives ==
    (last_bridged # NoPolygon /\ last_bridged.input[1] # {}) =>
        \A j \in 1 .. Len(last_bridged.output) : last_bridged.output[j][1] = {}

\* C4 as amended: for a polygon with at least one hole, the only interior
\* rings of the polygons apply_stencil_bridges returns are holes whose
\* boolean difference raised; when no difference raises none survives.
C4_OnlyFailedHolesSurvive ==
    (last_bridged # NoPolygon /\ last_bridged.input[1] # {}) =>
        \A j \in 1 .. Len(last_bridged.output) :
            last_bridged.output[j][1] \subseteq last_bridged.failed

\* a polygon with two holes came back in two pieces without a hole, and no
\* difference had raised
C4_Witness ==
    /\ last_bridged # NoPolygon
    /\ Cardinality(last_bridged.input[1]) >= 2
    /\ last_bridged.failed = {}
    /\ Len(last_bridged.output) = 2
    /\ \A j \in 1 .. 2 : last_bridged.output[j][1] = {}

\* C5: a failure at any step of bridging one hole leaves the working shape
\* as it was and does not end the bridging, let alone the export.
C5_BridgeFailureContained ==
    fault.step # "none" =>
        /\ temp_poly = fault.before
        /\ epc \notin {"except", "failed"}

\* C6: once a geometry step has failed on some layer, the export is still
\* not reported as failed and ends with every other layer built.
C6_LayerFailureContained ==
    geom_failed # {} =>
        /\ epc \notin {"except", "failed"}
        /\ "Export Error" \notin exp_signals
        /\ epc = "done" => \A j \in (1 .. NumLayers) \ geom_failed : j \in built

\* C7: at no time are two process_thread workers running.
C7_OneProcessWorker == Cardinality(Active("process")) <= 1

\* C8: every bridge width a 3D export worker has used is the one that
\* self.exp_bridge held when trigger_3d_export started the worker.
C8_InputsSnapshotted ==
    \A r \in RunIds :
        runs[r].kind = "export3d" =>
            \A j \in 1 .. Len(runs[r].used) :
                runs[r].used[j] = runs[r].bridge_at_start

C11_OrphanColour ==
    /\ [](attempts <= MaxAttempts)
    /\ []((pc \in {"publish", "done"} /\ last_draw # NoDraw) =>
              LET n == Len(final_centers) - 1
                  colour == final_centers[n + 1]
              IN  \/ \A i \in 1 .. n :
                         SqDist(final_centers[i], colour) > Threshold(n)
                  \/ /\ colour = Green
                     /\ attempts = MaxAttempts
                     /\ ~last_draw.accepted)
    /\ (pc = "search") ~> (pc = "append")

\* an orphan layer was added to ten layers with a drawn colour that was
\* accepted after an earlier draw had been rejected
C11_Witness ==
    /\ pc = "done"
    /\ last_draw # NoDraw
    /\ last_draw.accepted
    /\ attempts > 1
    /\ Len(processed_data.centers) = Len(Crowded) + 1
    /\ processed_data.centers[Len(Crowded) + 1] = last_draw.candidate

\* C12: a draw whose true squared distance to every existing layer colour
\* exceeds the threshold is accepted.
C12_AcceptedByTrueDistance ==
    (pc \in {"search", "append"} /\ last_draw # NoDraw) =>
        ((\A i \in 1 .. Len(final_centers) :
              SqDist(final_centers[i], last_draw.candidate)
                  > Threshold(Len(final_centers)))
            => last_draw.accepted)

\* the layers the run is configured to produce, the orphan layer apart
ConfiguredLayers ==
    IF Manual THEN Cardinality({layer_ids[i] : i \in 1 .. Len(layer_ids)})
    ELSE Len(raw_centers)

\* C13: with orphan detection on and a non-empty orphan mask the run does
\* not fail and ends with one layer more than configured, the orphan mask
\* last and as many centers as masks; otherwise no layer is appended.
C13_OrphanLayerAppended ==
    /\ pc = "failed" => ~(config.orphaned_blobs /\ OrphansFinal # {})
    /\ pc \in {"publish", "done"} =>
          IF config.orphaned_blobs /\ OrphansFinal # {}
          THEN /\ Len(final_masks) = ConfiguredLayers + 1
               /\ Len(final_centers) = ConfiguredLayers + 1
               /\ final_masks[ConfiguredLayers + 1] = OrphansFinal
          ELSE /\ Len(final_masks) = ConfiguredLayers
               /\ Len(final_centers) = ConfiguredLayers

\* C14: when the orphan step is reached every configured layer has its
\* final mask, and the raw orphan mask is the complement of their union: a
\* pixel is a raw orphan exactly when no final mask holds it.  With denoise 0
\* that complement is what went into the area filter for the orphan layer.
C14_OrphansAreComplement ==
    /\ pc = "orphan" =>
          /\ todo = <<>>
          /\ Len(final_masks) = ConfiguredLayers
          /\ RawOrphans = {p \in Grid : \A i \in 1 .. Len(final_masks) :
                                           p \notin final_masks[i]}
    /\ (/\ pc \in {"publish", "done"}
        /\ Len(final_masks) = ConfiguredLayers + 1
        /\ config.denoise_strength = 0) =>
          pre_filter[ConfiguredLayers + 1] =
              {p \in Grid : \A i \in 1 .. ConfiguredLayers : p \notin final_masks[i]}

\* the orphan step is reached with two layers that hold some pixels and
\* leave others uncovered
C14_Witness ==
    /\ pc = "orphan"
    /\ Len(final_masks) = 2
    /\ \A i \in 1 .. 2 : final_masks[i] # {}
    /\ RawOrphans # {}

\* C15: the orphan layer of a manual run is the raw orphan mask cleaned as a
\* layer mask is cleaned (closed, then opened, with the same kernel; untouched
\* when denoise is 0) and then area-filtered with the same threshold: that
\* mask is appended when it is not empty, and nothing is appended when it is.
C15_SameCleanupOrder ==
    (Manual /\ config.orphaned_blobs /\ pc \in {"publish", "done"}) =>
        LET expected == filter_small_blobs(
                            CleanLayer(RawOrphans, config.denoise_strength, Grid),
                            config.min_blob_size, Grid)
        IN  IF expected = {}
            THEN Len(final_masks) = ConfiguredLayers
            ELSE /\ Len(final_masks) = ConfiguredLayers + 1
                 /\ final_masks[ConfiguredLayers + 1] = expected

\* the distinct layer ids of the palette
LayerIdSet == {layer_ids[i] : i \in 1 .. Len(layer_ids)}

\* the palette entries (1-based) that carry the k-th smallest layer id
EntriesOfLayer(k) ==
    LET lid == CHOOSE x \in LayerIdSet :
                   Cardinality({y \in LayerIdSet : y < x}) = k - 1
    IN  {j \in 1 .. Len(layer_ids) : layer_ids[j] = lid}

\* C16: a manual run that has finished its merge loop has one layer per
\* distinct layer id, in ascending order of the ids; what went into the
\* area filter for a layer is the cleaned union of the raw masks of exactly
\* the palette entries with that id, and the layer's colour is, channel by
\* channel, the mean of those entries' colours truncated to an integer.
C16_OneLayerPerId ==
    (Manual /\ pc \in {"orphan", "publish", "done"}) =>
        /\ Len(final_masks) >= Cardinality(LayerIdSet)
        /\ Len(final_masks) <= Cardinality(LayerIdSet) + 1
        /\ \A k \in 1 .. Cardinality(LayerIdSet) :
              LET J == EntriesOfLayer(k)
                  n == Cardinality(J)
              IN  /\ pre_filter[k] =
                         CleanLayer({p \in Grid : \E j \in J : p \in raw_masks[j]},
                                    config.denoise_strength, Grid)
                  /\ \A ch \in 1 .. 3 :
                        LET sum == SumChannel(J, picked_colors, ch)
                        IN  /\ final_centers[k][ch] \in 0 .. 255
                            /\ n * final_centers[k][ch] <= sum
                            /\ sum < n * (final_centers[k][ch] + 1)

\* two layers were merged from three palette entries, and the mean of the
\* layer that has two entries is not an integer
C16_Witness ==
    /\ Manual
    /\ pc = "done"
    /\ Cardinality(LayerIdSet) = 2
    /\ \E k \in 1 .. 2 :
          /\ Cardinality(EntriesOfLayer(k)) = 2
          /\ SumChannel(EntriesOfLayer(k), picked_colors, 1) % 2 = 1
          /\ processed_data.masks[k] # {}

\* C17: in stencil mode a layer without polygons is exported as one solid: the
\* plate rectangle [-border, width + border] x [-border, height + border],
\* extruded once at the configured height and not perforated, for border 0 and
\* for a positive border.  shapely_polys still holds the polygons of layer
\* ei - 1 until the next layer is extracted.
C17_EmptyLayerPlainPlate ==
    (is_stencil /\ shapely_polys = <<>> /\ ei > 1 /\ epc \in {"extract", "done"}) =>
        exported[ei - 1] =
            {[part |-> "plate",
              rect |-> <<0 - border_w, 0 - border_w,
                         TargetW + border_w, TargetH + border_w>>,
              height |-> Extrusion,
              perforated |-> FALSE]}

C17_Witness ==
    /\ is_stencil
    /\ border_w > 0
    /\ shapely_polys = <<>>
    /\ epc = "done"
    /\ ei = NumLayers + 1
    /\ exported[NumLayers] # {}

\* p is a prefix of q
IsPrefix(p, q) == Len(p) <= Len(q) /\ SubSeq(q, 1, Len(p)) = p

\* C19: bridging alters polygons only in stencil mode and only polygons with
\* holes.  In relief mode the bridger is never entered and the polygons of a
\* layer change only when the next layer is extracted.  In stencil mode a
\* polygon without holes goes to the end of the output as it is, the output
\* only ever grows at its end, so that the polygon stands after the results
\* of the polygons before it, and the returned list is that output.
C19_BridgingFrame ==
    [][/\ ~is_stencil =>
            /\ epc' \notin {"b_poly", "b_hole"}
            /\ (shapely_polys' # shapely_polys => epc = "extract")
       /\ (/\ is_stencil
           /\ epc = "b_poly"
           /\ polys_in # <<>>
           /\ ~IsMulti(Head(polys_in))
           /\ Head(polys_in)[1] = {}) =>
               /\ bridged_polys' = Append(bridged_polys, Head(polys_in))
               /\ polys_in' = Tail(polys_in)
               /\ epc' = "b_poly"
       /\ (epc \in {"b_poly", "b_hole"} /\ epc' \in {"b_poly", "b_hole"}) =>
               IsPrefix(bridged_polys, bridged_polys')
       /\ (epc = "b_poly" /\ epc' = "mesh") => shapely_polys' = bridged_polys
      ]_vars

\* a polygon with holes was cut in two, and the polygon without holes that
\* followed it stands third in the returned list
C19_Witness ==
    /\ is_stencil
    /\ bridge_w > 0
    /\ epc = "mesh"
    /\ Len(shapely_polys) = 3
    /\ last_bridged # NoPolygon
    /\ last_bridged.input = Poly(0)
    /\ last_bridged.output = <<Poly(0)>>
    /\ shapely_polys[3] = Poly(0)

\* C18: once a cut has split the working polygon, the bridger goes on: with
\* holes left, the next hole is processed; with none left, every piece goes
\* to the output as a polygon of its own, in order, none dropped or merged.
C18_SplitPiecesReturned ==
    [][(epc = "b_hole" /\ IsMulti(temp_poly)) =>
           IF holes_todo # <<>>
           THEN /\ epc' = "b_hole"
                /\ holes_todo' = Tail(holes_todo)
           ELSE /\ epc' = "b_poly"
                /\ bridged_polys' =
                       bridged_polys \o [j \in 1 .. Len(temp_poly) |-> <<temp_poly[j]>>]
      ]_vars

\* C20: for every layer written, a hole of the mask has a ring of its own in
\* the drawing, and the drawing paints no pixel of a hole: the exported shape
\* has the holes of the mask.
C20_HolesExported ==
    \A j \in 1 .. svg_i - 1 :
        LET holes == HolePixels(svg_masks[j], SvgGrid)
        IN  /\ holes # {} => \E c \in dwgs[j] : c.ring = "hole" /\ c.inside \subseteq holes
            /\ Painted(dwgs[j]) \cap holes = {}

\* the outer contours that keep at least three points
KeptOuter ==
    {i \in DOMAIN approx_len : hierarchy[i][4] = NoIdx /\ approx_len[i] >= MinRing}

\* the direct children of contour i that keep at least three points
KeptChildren(i) ==
    {c \in DOMAIN approx_len : hierarchy[c][4] = i /\ approx_len[c] >= MinRing}

\* q holds one entry per kept outer contour, in the order of the contours,
\* with exactly the kept direct children of the contour as its holes
OnePerKeptOuter(q) ==
    /\ Len(q) = Cardinality(KeptOuter)
    /\ {q[k].shell : k \in 1 .. Len(q)} = KeptOuter
    /\ \A k \in 1 .. Len(q) :
          /\ Len(q[k].holes) = Cardinality(KeptChildren(q[k].shell))
          /\ {q[k].holes[m] : m \in 1 .. Len(q[k].holes)} = KeptChildren(q[k].shell)

\* C21 as stated: when the loop is over, the list of polygons holds exactly
\* one polygon per outer contour of at least three points, its holes being
\* exactly the direct children of at least three points.
C21_OnePolygonPerOuterContour ==
    ct_pc = "done" => OnePerKeptOuter(ct_polys)

\* C21, amended: exactly one Polygon(shell, holes) is constructed per outer
\* contour of at least three points, its holes being exactly the direct
\* children of at least three points; the list of polygons holds, in the
\* same order, those of them whose construction did not raise and whose
\* cleaned geometry is not empty, and nothing else.
C21_OneAssemblyPerOuterContour ==
    ct_pc = "done" =>
        /\ OnePerKeptOuter(assembled)
        /\ \A k \in 1 .. Len(ct_polys) :
              /\ \E a \in 1 .. Len(assembled) :
                     /\ assembled[a].shell = ct_polys[k].shell
                     /\ assembled[a].holes = ct_polys[k].holes
              /\ \A m \in 1 .. Len(ct_polys) :
                     k < m => ct_polys[k].shell < ct_polys[m].shell

\* an outer contour with one hole ring kept and one discarded went to the
\* list, and an outer contour of two points was passed over
C21_Witness ==
    /\ ct_pc = "done"
    /\ \E k \in 1 .. Len(ct_polys) :
          /\ Len(ct_polys[k].holes) = 1
          /\ \E c \in DOMAIN approx_len :
                 hierarchy[c][4] = ct_polys[k].shell /\ approx_len[c] < MinRing

\* C23: whenever processed_data is not None, it is the result of a run on
\* the image that is loaded now.
C23_ResultOfLoadedImage ==
    processed_data # NoData => processed_data.image = cv_original_full

\* C24: the values an export worker has read from processed_data all come
\* from the result of one run.
C24_InputsOfOneRun ==
    \A r \in RunIds :
        runs[r].kind \in {"export2d", "export3d"} =>
            \A a, b \in 1 .. Len(runs[r].data) :
                runs[r].data[a].run = runs[r].data[b].run

\* C25: whenever update_ui_after_process is called, processed_data is not
\* None and preview_images holds the previews of the run whose result is
\* published.
C25_PreviewsOfPublishedRun ==
    [][Tk_update_ui_after_process =>
           /\ processed_data # NoData
           /\ preview_images # NoPreviews
           /\ preview_images.run = processed_data.run]_vars

\* C26: no export worker is started while processed_data is None.
C26_NoExportWithoutData ==
    [][(\E r \in RunIds :
            /\ runs[r].kind = "none"
            /\ runs'[r].kind \in {"export2d", "export3d"}) =>
           processed_data # NoData]_vars

\* C22: after compact_layer_ids, called by remove_color or apply_bulk_layer,
\* the ids in use are exactly 1..k for the k distinct ids it found, two
\* entries share an id if and only if they shared one before, the order of
\* the ids is the order before, the palette holds the ids it left, and
\* compacting them again changes nothing.
C22_CompactedIds ==
    compact_call # NoCall =>
        LET before == compact_call.before
            after  == compact_call.after
        IN  /\ Len(after) = Len(before)
            /\ IdsOf(after) = 1 .. Cardinality(IdsOf(before))
            /\ \A p, q \in 1 .. Len(before) :
                  /\ after[p] = after[q] <=> before[p] = before[q]
                  /\ after[p] < after[q] <=> before[p] < before[q]
            /\ layer_vars = after
            /\ compact_layer_ids(after) = after

\* a compaction met two ids with a gap between them, the larger first
C22_Witness ==
    /\ compact_call # NoCall
    /\ Len(compact_call.before) = 2
    /\ compact_call.before[1] > compact_call.before[2] + 1
    /\ compact_call.after = <<2, 1>>

\* C27: after any sequence of palette operations picked_colors, layer_vars
\* and select_vars have the same length.
C27_ParallelLists ==
    /\ Len(self_picked_colors) = Len(layer_vars)
    /\ Len(layer_vars) = Len(select_vars)

\* C28: last_select_index is -1 or an index of select_vars.
C28_ValidLastIndex ==
    \/ last_select_index = 0 - 1
    \/ last_select_index \in 0 .. Len(select_vars) - 1

=============================================================================
